---- MODULE Spec2Model ----
(***************************************************************************)
(* Panopticon Scanner: the scan-execution state machine (ScanService) and  *)
(* the reconciliation store (database.DB).                                 *)
(*                                                                         *)
(* Strings that the code inspects character by character (command-line     *)
(* arguments, networks, paths) are sequences of one-character strings;     *)
(* names that are only compared as a whole are TLA+ strings.  Errors are    *)
(* sequences of messages, outermost wrapper first; the nil error is <<>>.  *)
(* Times are integers counted in half hours; the zero time.Time is 0.      *)
(***************************************************************************)
EXTENDS Integers, Sequences, FiniteSets, TLC

\* ------------------------------------------------------------------ bounds
NumCallers == 2       \* goroutines that call RunScan / RunManualScan
MaxRuns == 2          \* Run calls that pass the single-flight check
MaxTicks == 1         \* observed advances of the wall clock
MaxHosts == 1         \* <host> elements in one snapshot
MaxPorts == 1         \* <port> elements of one host
MaxDeviceRows == 2    \* device rows ever inserted by direct store calls
MaxPortRows == 1      \* port rows ever inserted by direct store calls
MaxChangeRows == 2    \* change rows ever inserted by direct store calls
MaxScanRows == 1      \* scan rows ever inserted by direct store calls
MaxLogRows == 1       \* log rows ever inserted by direct store calls
NumThreads == 2       \* threads that call store methods concurrently
MaxCalls == 2         \* store methods each thread calls
NumWriters == 1       \* threads that write to the store during a scan
MaxServiceCalls == 1  \* service methods each goroutine calls
MaxRetriesTried == 6  \* largest maxRetries passed to ExecuteWithRetry
DurationBits == 5     \* width of a time.Duration, sign included
MaxBuilds == 2        \* nmap invocations built one after the other
MaxSnapshot == 2      \* <host> elements in an output file that is followed
MaxFires == 2         \* times the ticker of the scheduler fires
MaxRequests == 2      \* HTTP requests that ask for a scan

\* ------------------------------------------------------- time (half hours)
UnitsPerHour == 2
Hour == UnitsPerHour
Day == 24 * Hour
StartOfTime == 2 * Day

\* a time that is kept as it is
TruncateNot(t) == t

\* time.Time.Truncate(time.Hour)
Truncate(t) == t - (t % Hour)

\* ------------------------------------------------------------------ errors
NoErr == <<>>
Wrap(msg, err) == <<msg>> \o err

ErrAlreadyRunning == <<"a scan is already in progress">>
ErrNoTargetConfig == <<"no target network specified in configuration">>
ErrNoTarget == <<"no target network specified">>
\* failures of the environment, as the callee reports them
ErrSql == <<"sql: database is closed">>
ErrPipe == <<"exec: pipe failed">>
ErrExec == <<"exec: nmap: executable file not found">>
ErrExit == <<"exit status 1">>
ErrRead == <<"failed to read scan output file">>
ErrXml == <<"failed to parse nmap XML">>

\* ----------------------------------------------------------------- strings
DigitChars == <<"0", "1", "2", "3", "4", "5", "6", "7", "8", "9">>

RECURSIVE Digits(_)
Digits(n) == IF n < 10 THEN <<DigitChars[n + 1]>>
             ELSE Digits(n \div 10) \o <<DigitChars[(n % 10) + 1]>>

\* strconv.Itoa
Itoa(n) == IF n < 0 THEN <<"-">> \o Digits(-n) ELSE Digits(n)

\* strings.HasPrefix(arg, "-p")
HasPrefixDashP(arg) == Len(arg) >= 2 /\ arg[1] = "-" /\ arg[2] = "p"

ArgOX == <<"-", "o", "X">>
ArgAllPorts == <<"-", "p", "-">>
ArgPn == <<"-", "P", "n">>
ArgMaxRate == <<"-", "-", "m", "a", "x", "-", "r", "a", "t", "e">>
ArgSS == <<"-", "s", "S">>
ArgSV == <<"-", "s", "V">>
ArgO == <<"-", "O">>
ArgF == <<"-", "F">>
ArgT2 == <<"-", "T", "2">>
ArgOsscanLimit == <<"-", "-", "o", "s", "s", "c", "a", "n", "-", "l", "i", "m", "i", "t">>
ArgOsscanGuess == <<"-", "-", "o", "s", "s", "c", "a", "n", "-", "g", "u", "e", "s", "s">>
ArgMaxRetries == <<"-", "-", "m", "a", "x", "-", "r", "e", "t", "r", "i", "e", "s">>
ArgOne == <<"1">>
ArgP == <<"-", "p">>
ArgP80 == <<"-", "p", "8", "0">>
ArgPortRange == <<"1", "-", "9">>
Nmap == <<"n", "m", "a", "p">>

NoNetwork == <<>>
ConfigNet == <<"1", "0", ".", "0", ".", "0", ".", "0", "/", "8">>
OverrideNet == <<"1", "0", ".", "9", ".", "0", ".", "0", "/", "2", "4">>

\* --------------------------------------------------------------- templates
\* ScanService.getTemplates
getTemplates ==
    [name \in {"default", "quick", "thorough", "stealth"} |->
        CASE name = "default" ->
                [Name |-> "default",
                 NmapArgs |-> <<ArgSS, ArgSV, ArgO, ArgOsscanLimit>>,
                 RateLimit |-> 1000]
          [] name = "quick" ->
                [Name |-> "quick",
                 NmapArgs |-> <<ArgSS, ArgF>>,
                 RateLimit |-> 2000]
          [] name = "thorough" ->
                [Name |-> "thorough",
                 NmapArgs |-> <<ArgSS, ArgSV, ArgAllPorts, ArgO, ArgOsscanGuess>>,
                 RateLimit |-> 500]
          [] name = "stealth" ->
                [Name |-> "stealth",
                 NmapArgs |-> <<ArgSS, ArgT2, ArgMaxRetries, ArgOne>>,
                 RateLimit |-> 100]]

\* a lookup that falls back to the "quick" template
getScanTemplateQuick(name) ==
    [template |-> IF name \in DOMAIN getTemplates
                  THEN getTemplates[name]
                  ELSE getTemplates["quick"],
     err |-> NoErr]

\* ScanService.getScanTemplate: an unknown name falls back to "default"
getScanTemplate(name) ==
    [template |-> IF name \in DOMAIN getTemplates
                  THEN getTemplates[name]
                  ELSE getTemplates["default"],
     err |-> NoErr]

\* an output path that is the same for every run
OutputPathShared(n) == <<"s", "c", "a", "n", ".", "x", "m", "l">>

\* filepath.Join(OutputDir, fmt.Sprintf("scan_%s.xml", uuid)); the uuid drawn
\* by the n-th accepted run is modelled by n
OutputPath(n) == <<"s", "c", "a", "n", "_">> \o Itoa(n) \o <<".", "x", "m", "l">>

\* ScanService.prepareScanCommand
prepareScanCommand(template, outputPath, configNetwork) ==
    IF configNetwork = NoNetwork
    THEN [cmd |-> <<>>, err |-> ErrNoTargetConfig]
    ELSE [cmd |-> <<Nmap, ArgOX, outputPath>> \o template.NmapArgs
                  \o <<ArgMaxRate, Itoa(template.RateLimit), configNetwork>>,
          err |-> NoErr]

RECURSIVE StripPortArgs(_)
\* the loop of prepareManualScanCommand that skips arguments starting "-p"
StripPortArgs(args) ==
    IF args = <<>> THEN <<>>
    ELSE IF HasPrefixDashP(Head(args)) THEN StripPortArgs(Tail(args))
    ELSE <<Head(args)>> \o StripPortArgs(Tail(args))

\* ScanService.prepareManualScanCommand
prepareManualScanCommand(template, outputPath, params, configNetwork) ==
    LET base == <<ArgOX, outputPath>>
        withPorts == IF params.ScanAllPorts
                     THEN base \o StripPortArgs(template.NmapArgs) \o <<ArgAllPorts>>
                     ELSE base \o template.NmapArgs
        hasPingDisabled == \E i \in 1..Len(withPorts) : withPorts[i] = ArgPn
        withPing == IF params.DisablePing /\ ~hasPingDisabled
                    THEN withPorts \o <<ArgPn>>
                    ELSE withPorts
        rateLimit == IF params.RateLimit > 0 THEN params.RateLimit
                     ELSE template.RateLimit
        target == IF params.TargetNetwork # NoNetwork
                  THEN params.TargetNetwork
                  ELSE configNetwork
    IN  IF target = NoNetwork
        THEN [cmd |-> <<>>, err |-> ErrNoTarget]
        ELSE [cmd |-> <<Nmap>> \o withPing
                      \o <<ArgMaxRate, Itoa(rateLimit), target>>,
              err |-> NoErr]

\* ------------------------------------------------------------------- state
VARIABLES
    mockModeForTesting, \* ScanService.mockModeForTesting
    targetNetwork,      \* config.Scanner.TargetNetwork
    isScanning,         \* ScanService.isScanning
    scanStats,          \* *ScanService.scanStats
    prevStatus,         \* history: scanStats.Status before its last change
    pc,                 \* per caller: position inside RunScan / RunManualScan
    loc,                \* per caller: arguments and local variables of the call
    ret,                \* what the call that returned last gave its caller
    proc,               \* the callers whose nmap subprocess is running
    runs,               \* history: Run calls that passed the single-flight check
    store,              \* the SQLite database: tables and AUTOINCREMENT counters
    fkEnforced,         \* PRAGMA foreign_keys of the pooled connection
    scanUpdates,        \* history: per scan id, the UPDATEs that changed its row
    now,                \* the wall clock
    call,               \* history: the last call a client made on the store
    dbLock,             \* DB.Mutex: the thread that holds it, or 0
    conn,               \* the pool's only connection: the thread using it, or 0
    work,               \* the transaction open on the connection
    thr,                \* per thread: the store method it is in, and where
    saved,              \* history: the device keys of committed SaveDevice calls
    scanLock,           \* ScanService.scanLock: the goroutine that holds it, or 0
    gor,                \* per goroutine: the service method it is in, and where
    mainFile,           \* what the database file holds without its write-ahead log
    backups,            \* the backup files, by path
    rt,                 \* the ExecuteWithRetry call in progress, and its history
    built,              \* the nmap invocation built last, and what it was built from
    snapshot,           \* the hosts, with their ports, in the output file of the scan
    trig                \* what may trigger a scan: the ticker, the first run, a request

vars == <<mockModeForTesting, targetNetwork, isScanning, scanStats, prevStatus,
          pc, loc, ret, proc, runs, store, fkEnforced, scanUpdates, now, call,
          dbLock, conn, work, thr, saved, scanLock, gor, mainFile,
          backups, rt, built, snapshot, trig>>

\* what belongs to the goroutines that are inside service methods
locks == <<scanLock, gor>>

\* the files of the store
files == <<mainFile, backups>>

\* what belongs to the callers of the helpers
helpers == <<rt, built, snapshot, trig>>

\* what belongs to the threads that are inside store methods
threads == <<dbLock, conn, work, thr, saved, locks, files, helpers>>

\* what belongs to the clients that call the store directly
client == <<call, threads>>

\* what belongs to the scan orchestrator
scanner == <<mockModeForTesting, targetNetwork, isScanning, scanStats,
             prevStatus, pc, loc, ret, proc, runs, locks, files, helpers>>

Callers == 1..NumCallers

Threads == 1..NumThreads

\* the threads that write to the store while a scan is watched
Writers == 1..NumWriters

\* SQL NULL
Null == "NULL"

\* --------------------------------------------------------------- the store
\* the rows of the scans table with the given id (at most one)
ScanRows(st, id) == {r \in st.scans : r.id = id}

\* SELECT COALESCE(MAX(id), 1) FROM scans
LatestScanID(st) ==
    IF st.scans = {} THEN 1
    ELSE CHOOSE m \in {r.id : r \in st.scans} : \A r \in st.scans : r.id <= m

\* DB.CreateScan: INSERT INTO scans ... status 'running', error_message unset
CreateScan(st, template, t) ==
    [id |-> st.nextScan,
     store |-> [st EXCEPT
        !.scans = @ \cup {[id |-> st.nextScan, timestamp |-> t,
                           template |-> template, duration |-> 0,
                           devices_found |-> 0, ports_found |-> 0,
                           status |-> "running", error_message |-> Null]},
        !.nextScan = @ + 1]]

\* int(duration.Seconds()) of a duration measured in clock units
DurationSecs(d) == d * (3600 \div UnitsPerHour)

\* DB.UpdateScan: UPDATE scans SET ... WHERE id = ? (no row: nothing changes)
UpdateScan(st, id, status, devicesFound, portsFound, duration, errorMsg) ==
    [st EXCEPT !.scans =
        {IF r.id = id
         THEN [r EXCEPT !.status = status,
                        !.devices_found = devicesFound,
                        !.ports_found = portsFound,
                        !.duration = DurationSecs(duration),
                        !.error_message = errorMsg]
         ELSE r : r \in @}]

\* DB.GetScan: a NULL error_message reads as the empty string
GetScan(st, id) ==
    LET r == CHOOSE x \in ScanRows(st, id) : TRUE
    IN  [ID |-> r.id, Timestamp |-> r.timestamp, Template |-> r.template,
         Duration |-> r.duration, DevicesFound |-> r.devices_found,
         PortsFound |-> r.ports_found, Status |-> r.status,
         ErrorMessage |-> IF r.error_message = Null THEN "" ELSE r.error_message]

\* ScanService.updateScanInDB: always passes the empty error message
updateScanInDB(st, scanID, status, deviceCount, portCount, duration) ==
    UpdateScan(st, scanID, status, deviceCount, portCount, duration, "")

\* a lookup by the address alone
FindDeviceByIP(st, ip, mac) == {r \in st.devices : r.ip_address = ip}

\* SELECT id FROM devices WHERE ip_address = ? AND (mac_address = ? OR
\* (mac_address IS NULL AND ? IS NULL)); the bound value is a Go string and
\* so never NULL
FindDevice(st, ip, mac) ==
    {r \in st.devices :
        /\ r.ip_address = ip
        /\ \/ (r.mac_address # Null /\ r.mac_address = mac)
           \/ (r.mac_address = Null /\ mac = Null)}

\* UNIQUE(ip_address, mac_address): NULLs never collide
DeviceKeyFree(rows, ip, mac) ==
    \A r \in rows : ~(r.ip_address = ip /\ r.mac_address # Null /\ mac # Null
                      /\ r.mac_address = mac)

\* UNIQUE(device_id, port_number, protocol)
PortKeyFree(rows, deviceID, portNumber, protocol) ==
    \A r \in rows : ~(r.device_id = deviceID /\ r.port_number = portNumber
                      /\ r.protocol = protocol)

\* INSERT INTO changes ...: with foreign keys enforced the statement fails
\* (and is only logged) unless scan_id and device_id name existing rows
InsertChange(st, fk, scanID, deviceID, changeType, details, t) ==
    IF fk /\ (ScanRows(st, scanID) = {} \/ \A d \in st.devices : d.id # deviceID)
    THEN st
    ELSE [st EXCEPT
            !.changes = @ \cup {[id |-> st.nextChange, scan_id |-> scanID,
                                 device_id |-> deviceID,
                                 change_type |-> changeType,
                                 details |-> details, timestamp |-> t]},
            !.nextChange = @ + 1]

MinID(rows) == CHOOSE r \in rows : \A x \in rows : r.id <= x.id

\* environment faults of one store transaction
StoreFaults == {"none", "begin", "commit"}
\* the text "<what> changed: <old> -> <new>; " of a device_change record
ChangeText(what, old, new) == <<what, old, new>>

\* an upsert that inserts without the lookup and without the UNIQUE constraint
SaveDeviceBlind(st, device, t, fk, fault) ==
    IF fault # "none"
    THEN [id |-> 0, err |-> Wrap("failed to begin transaction", ErrSql),
          store |-> st]
    ELSE [id |-> st.nextDev, err |-> NoErr,
          store |-> [st EXCEPT
                       !.devices = @ \cup
                           {[id |-> st.nextDev,
                             ip_address |-> device.IPAddress,
                             mac_address |-> device.MACAddress,
                             hostname |-> device.Hostname,
                             os_fingerprint |-> device.OSFingerprint,
                             first_seen |-> Truncate(t),
                             last_seen |-> Truncate(t)]},
                       !.nextDev = @ + 1]]

\* a comparison that takes every non-empty incoming value for a change
FieldChangedAlways(incoming, stored) == incoming # ""

\* a stored field counts as changed by a non-empty, different incoming value
FieldChanged(incoming, stored) == incoming # stored /\ incoming # ""

\* a write-back that stores the incoming value even when it is empty
ValueToStoreIncoming(incoming, stored) == incoming

\* the value written back: an empty incoming value keeps the stored one
ValueToStore(incoming, stored) == IF incoming = "" THEN stored ELSE incoming

\* DB.SaveDevice, one call: the transaction under db.Lock.  device is the
\* models.Device passed in, t the clock, fk the foreign-key pragma, fault the
\* environment fault of this transaction.  Yields the returned id and error
\* and the store after commit or rollback.
SaveDevice(st, device, t, fk, fault) ==
    LET roundedTime == Truncate(t)
        found == FindDevice(st, device.IPAddress, device.MACAddress)
        failed(msg) == [id |-> 0, err |-> Wrap(msg, ErrSql), store |-> st]
        committed(id, st2) ==
            IF fault = "commit" THEN failed("failed to commit transaction")
            ELSE [id |-> id, err |-> NoErr, store |-> st2]
    IN  IF fault = "begin" THEN failed("failed to begin transaction")
        ELSE IF found = {}
        THEN \* insert new device
             IF ~DeviceKeyFree(st.devices, device.IPAddress, device.MACAddress)
             THEN failed("failed to insert device")
             ELSE LET id == st.nextDev
                      st1 == [st EXCEPT
                                !.devices = @ \cup
                                    {[id |-> id,
                                      ip_address |-> device.IPAddress,
                                      mac_address |-> device.MACAddress,
                                      hostname |-> device.Hostname,
                                      os_fingerprint |-> device.OSFingerprint,
                                      first_seen |-> roundedTime,
                                      last_seen |-> roundedTime]},
                                !.nextDev = @ + 1]
                      st2 == InsertChange(st1, fk, LatestScanID(st1), id,
                                          "new_device",
                                          <<"New device discovered",
                                            device.IPAddress>>, t)
                  IN  committed(id, st2)
        ELSE \* device exists, check if we need to update
             LET old == MinID(found)
                 id == old.id
                 oldMac == IF old.mac_address = Null THEN "" ELSE old.mac_address
                 macChanged == FieldChanged(device.MACAddress, oldMac)
                 hostChanged == FieldChanged(device.Hostname, old.hostname)
                 osChanged == FieldChanged(device.OSFingerprint, old.os_fingerprint)
                 hasChanges == macChanged \/ hostChanged \/ osChanged
                 changeDetails ==
                     (IF macChanged
                      THEN <<ChangeText("MAC address", oldMac, device.MACAddress)>>
                      ELSE <<>>)
                     \o (IF hostChanged
                         THEN <<ChangeText("Hostname", old.hostname, device.Hostname)>>
                         ELSE <<>>)
                     \o (IF osChanged
                         THEN <<ChangeText("OS", old.os_fingerprint,
                                           device.OSFingerprint)>>
                         ELSE <<>>)
                 macValue == IF device.MACAddress = "" /\ old.mac_address # Null
                             THEN old.mac_address ELSE device.MACAddress
                 hostnameValue == ValueToStore(device.Hostname, old.hostname)
                 osValue == ValueToStore(device.OSFingerprint, old.os_fingerprint)
                 others == st.devices \ {old}
                 new == [old EXCEPT !.mac_address = macValue,
                                    !.hostname = hostnameValue,
                                    !.os_fingerprint = osValue,
                                    !.last_seen = roundedTime]
             IN  IF hasChanges \/ device.LastSeen > t - Hour
                 THEN IF ~DeviceKeyFree(others, old.ip_address, macValue)
                      THEN failed("failed to update device")
                      ELSE LET st1 == [st EXCEPT !.devices = others \cup {new}]
                               st2 == IF hasChanges
                                      THEN InsertChange(st1, fk, LatestScanID(st1),
                                                        id, "device_change",
                                                        changeDetails, t)
                                      ELSE st1
                           IN  committed(id, st2)
                 ELSE committed(id, st)

\* SELECT id, service_name, service_version FROM ports WHERE device_id = ?
\* AND port_number = ? AND protocol = ?
FindPort(st, deviceID, portNumber, protocol) ==
    {r \in st.ports : r.device_id = deviceID /\ r.port_number = portNumber
                      /\ r.protocol = protocol}

\* DB.SavePort, one call: the transaction under db.Lock
SavePort(st, port, t, fk, fault) ==
    LET roundedTime == Truncate(t)
        found == FindPort(st, port.DeviceID, port.PortNumber, port.Protocol)
        failed(msg) == [err |-> Wrap(msg, ErrSql), store |-> st]
        committed(st2) ==
            IF fault = "commit" THEN failed("failed to commit transaction")
            ELSE [err |-> NoErr, store |-> st2]
    IN  IF fault = "begin" THEN failed("failed to begin transaction")
        ELSE IF found = {}
        THEN \* insert new port
             IF \/ ~PortKeyFree(st.ports, port.DeviceID, port.PortNumber,
                                port.Protocol)
                \/ (fk /\ \A d \in st.devices : d.id # port.DeviceID)
             THEN failed("failed to insert port")
             ELSE LET st1 == [st EXCEPT
                                !.ports = @ \cup
                                    {[id |-> st.nextPort,
                                      device_id |-> port.DeviceID,
                                      port_number |-> port.PortNumber,
                                      protocol |-> port.Protocol,
                                      service_name |-> port.ServiceName,
                                      service_version |-> port.ServiceVersion,
                                      first_seen |-> roundedTime,
                                      last_seen |-> roundedTime]},
                                !.nextPort = @ + 1]
                      st2 == InsertChange(st1, fk, LatestScanID(st1),
                                          port.DeviceID, "new_port",
                                          <<"New port discovered",
                                            port.PortNumber, port.Protocol,
                                            port.ServiceName>>, t)
                  IN  committed(st2)
        ELSE \* port exists, check if service information changed
             LET old == MinID(found)
                 serviceChanged ==
                     \/ FieldChanged(port.ServiceName, old.service_name)
                     \/ FieldChanged(port.ServiceVersion, old.service_version)
                 serviceNameValue == ValueToStore(port.ServiceName,
                                                  old.service_name)
                 serviceVersionValue == ValueToStore(port.ServiceVersion,
                                                     old.service_version)
                 new == [old EXCEPT !.service_name = serviceNameValue,
                                    !.service_version = serviceVersionValue,
                                    !.last_seen = roundedTime]
             IN  IF serviceChanged \/ port.LastSeen > t - Hour
                 THEN LET st1 == [st EXCEPT !.ports = (@ \ {old}) \cup {new}]
                          st2 == IF serviceChanged
                                 THEN InsertChange(st1, fk, LatestScanID(st1),
                                                   port.DeviceID, "port_change",
                                                   <<"Service on port",
                                                     port.PortNumber, port.Protocol,
                                                     old.service_name,
                                                     old.service_version,
                                                     serviceNameValue,
                                                     serviceVersionValue>>, t)
                                 ELSE st1
                      IN  committed(st2)
                 ELSE committed(st)

\* DB.CleanOldData, one call: the transaction under db.Lock.  Rows removed by
\* ON DELETE CASCADE (only with foreign keys enforced) are not counted.
CleanOldData(st, retentionDays, t, fk, fault) ==
    LET cutoff == t - retentionDays * Day
        failed(msg) == [count |-> 0, err |-> Wrap(msg, ErrSql), store |-> st]
        oldChanges == {r \in st.changes : r.timestamp < cutoff}
        changes1 == st.changes \ oldChanges
        oldScans == {r \in st.scans : r.timestamp < cutoff}
        scans2 == st.scans \ oldScans
        changes2 == IF fk
                    THEN {r \in changes1 : \A x \in oldScans : x.id # r.scan_id}
                    ELSE changes1
        oldDevices == {r \in st.devices : r.last_seen < cutoff}
        devices3 == st.devices \ oldDevices
        ports3 == IF fk
                  THEN {r \in st.ports : \A d \in oldDevices : d.id # r.device_id}
                  ELSE st.ports
        changes3 == IF fk
                    THEN {r \in changes2 : \A d \in oldDevices : d.id # r.device_id}
                    ELSE changes2
        oldLogs == {r \in st.logs : r.timestamp < cutoff}
        totalDeleted == Cardinality(oldScans) + Cardinality(oldDevices)
                        + Cardinality(oldChanges) + Cardinality(oldLogs)
    IN  IF fault = "begin" THEN failed("failed to begin transaction")
        ELSE IF fault = "commit" THEN failed("failed to commit transaction")
        ELSE [count |-> totalDeleted, err |-> NoErr,
              store |-> [st EXCEPT !.changes = changes3, !.scans = scans2,
                                   !.devices = devices3, !.ports = ports3,
                                   !.logs = @ \ oldLogs]]
\* ------------------------------------------------------ the scan snapshot
\* <host> elements the external tool may report
HostElems ==
    {[state |-> "up",
      addresses |-> <<[addr |-> "10.0.0.1", addrtype |-> "ipv4"],
                      [addr |-> "aa:aa", addrtype |-> "mac"]>>,
      hostnames |-> <<"router">>, osmatches |-> <<"Linux 5.4", "Linux 4.x">>],
     [state |-> "up",
      addresses |-> <<[addr |-> "10.0.0.1", addrtype |-> "ipv4"],
                      [addr |-> "aa:aa", addrtype |-> "mac"]>>,
      hostnames |-> <<"gateway", "router">>, osmatches |-> <<>>],
     [state |-> "up",
      addresses |-> <<[addr |-> "10.0.0.1", addrtype |-> "ipv4"]>>,
      hostnames |-> <<>>, osmatches |-> <<>>],
     [state |-> "up",
      addresses |-> <<[addr |-> "10.0.0.2", addrtype |-> "ipv4"],
                      [addr |-> "fe80::1", addrtype |-> "ipv6"]>>,
      hostnames |-> <<>>, osmatches |-> <<"Windows 10">>],
     [state |-> "up",
      addresses |-> <<[addr |-> "bb:bb", addrtype |-> "mac"]>>,
      hostnames |-> <<"nameless">>, osmatches |-> <<>>],
     [state |-> "down",
      addresses |-> <<[addr |-> "10.0.0.2", addrtype |-> "ipv4"]>>,
      hostnames |-> <<>>, osmatches |-> <<>>]}

\* <port> elements the external tool may report
PortElems ==
    {[protocol |-> "tcp", portid |-> <<"8", "0">>, state |-> "open",
      service |-> [name |-> "http", product |-> "nginx", version |-> "1.18.0"]],
     [protocol |-> "tcp", portid |-> <<"8", "0">>, state |-> "open",
      service |-> [name |-> "", product |-> "Apache", version |-> ""]],
     [protocol |-> "tcp", portid |-> <<"2", "2">>, state |-> "closed",
      service |-> [name |-> "ssh", product |-> "", version |-> "8.2p1"]],
     [protocol |-> "udp", portid |-> <<"d", "n", "s">>, state |-> "open",
      service |-> [name |-> "domain", product |-> "", version |-> ""]]}

\* what the scanned network answers with: a host that is up and one that is
\* down, an open port and a closed one
ScanHosts ==
    {h \in HostElems : h.hostnames = <<"router">> \/ h.state = "down"}

ScanPorts ==
    {p \in PortElems : p.service.product = "nginx" \/ p.state = "closed"}

\* the loop over host.Addresses: the last address of the type wins
RECURSIVE LastAddr(_, _)
LastAddr(addresses, addrtype) ==
    IF addresses = <<>> THEN ""
    ELSE LET rest == LastAddr(Tail(addresses), addrtype)
         IN  IF rest # "" THEN rest
             ELSE IF Head(addresses).addrtype = addrtype
                  THEN Head(addresses).addr ELSE ""

IsDigit(ch) == \E i \in 1..10 : DigitChars[i] = ch
DigitVal(ch) == (CHOOSE i \in 1..10 : DigitChars[i] = ch) - 1

RECURSIVE DigitsVal(_, _)
DigitsVal(chars, acc) ==
    IF chars = <<>> THEN acc
    ELSE DigitsVal(Tail(chars), acc * 10 + DigitVal(Head(chars)))

\* strconv.Atoi on an unsigned decimal or anything else
Atoi(chars) ==
    IF chars # <<>> /\ \A i \in 1..Len(chars) : IsDigit(chars[i])
    THEN [ok |-> TRUE, value |-> DigitsVal(chars, 0)]
    ELSE [ok |-> FALSE, value |-> 0]

\* the models.Device that processScanResults builds from a <host>
DeviceOf(host, t) ==
    [IPAddress |-> LastAddr(host.addresses, "ipv4"),
     MACAddress |-> LastAddr(host.addresses, "mac"),
     Hostname |-> IF Len(host.hostnames) > 0 THEN host.hostnames[1] ELSE "",
     OSFingerprint |-> IF Len(host.osmatches) > 0 THEN host.osmatches[1] ELSE "",
     FirstSeen |-> t, LastSeen |-> t]

\* the models.Port that processScanResults builds from a <port>
PortOf(port, deviceID, portNum, t) ==
    [DeviceID |-> deviceID, PortNumber |-> portNum, Protocol |-> port.protocol,
     ServiceName |-> port.service.name,
     ServiceVersion |->
        IF port.service.product # ""
        THEN IF port.service.version # ""
             THEN port.service.product \o " " \o port.service.version
             ELSE port.service.product
        ELSE "",
     FirstSeen |-> t, LastSeen |-> t]

\* ---------------------------------------------------------- initial state
NoTemplate == [Name |-> "", NmapArgs |-> <<>>, RateLimit |-> 0]

RunScanParams(templateName) ==
    [Template |-> templateName, TargetNetwork |-> NoNetwork, RateLimit |-> 0,
     ScanAllPorts |-> FALSE, DisablePing |-> FALSE]

NoRet == [id |-> 0, err |-> NoErr, kind |-> "none"]

LocInit ==
    [op |-> "none", params |-> RunScanParams(""), run |-> 0,
     template |-> NoTemplate, cmd |-> <<>>, dbScanID |-> 0,
     deviceCount |-> 0, portCount |-> 0, err |-> NoErr, ret |-> NoRet,
     hostsSeen |-> 0, portsSeen |-> 0, deviceID |-> 0,
     deviceCalls |-> 0, portCalls |-> 0]

\* template names callers ask for; "weekly" is not a built-in template
RequestedTemplates == {"thorough", "weekly"}

\* the models.ScanParameters callers pass to RunManualScan
ManualParams ==
    {[Template |-> "thorough", TargetNetwork |-> OverrideNet, RateLimit |-> 250,
      ScanAllPorts |-> TRUE, DisablePing |-> TRUE],
     [Template |-> "weekly", TargetNetwork |-> NoNetwork, RateLimit |-> 0,
      ScanAllPorts |-> FALSE, DisablePing |-> TRUE]}

\* a retention period of no days
RetentionOfNoDays == {0}

\* retention periods, in days, that the sweep is called with
RetentionChoices == {1}

EmptyStore ==
    [devices |-> {}, ports |-> {}, changes |-> {}, scans |-> {}, logs |-> {},
     nextDev |-> 1, nextPort |-> 1, nextChange |-> 1, nextScan |-> 1,
     nextLog |-> 1]

\* no client has called the store yet
NoCall == [op |-> "none", arg |-> <<>>, id |-> 0, err |-> NoErr, count |-> 0,
           at |-> 0, repeat |-> FALSE]

\* no transaction is open
NoTx == [open |-> FALSE, st |-> EmptyStore]

\* a thread outside the store
ThreadIdle == [pc |-> "idle", op |-> "none", arg |-> <<>>, id |-> 0,
               err |-> NoErr, res |-> {}, left |-> MaxCalls]

\* the scheduler has just been started and no request was made
NoTrigger == [initial |-> TRUE, pending |-> FALSE, during |-> FALSE,
              fired |-> 0, requests |-> 0, cancelled |-> FALSE,
              http |-> [c \in Callers |-> "none"]]

\* no invocation was built yet
NoBuild == [n |-> 0, op |-> "none", template |-> NoTemplate,
            params |-> RunScanParams(""), cmd |-> <<>>, err |-> NoErr,
            path |-> <<>>, earlier |-> {}, read |-> <<>>]

\* no ExecuteWithRetry call was made yet
NoRetry == [pc |-> "idle", maxRetries |-> 0, retryDelay |-> 0, attempt |-> 0,
            err |-> NoErr, ret |-> NoErr, results |-> <<>>, waits |-> <<>>]

\* a goroutine outside the service
GorIdle == [pc |-> "idle", in |-> FALSE, name |-> "", after |-> "idle",
            err |-> NoErr, id |-> 0, deviceCount |-> 0, portCount |-> 0,
            deviceID |-> 0, left |-> MaxServiceCalls]

\* scanner.New and database.New
Init ==
    /\ mockModeForTesting \in BOOLEAN
    /\ targetNetwork \in {NoNetwork, ConfigNet}
    /\ isScanning = FALSE
    /\ scanStats = [ScanID |-> 0, StartTime |-> 0, EndTime |-> 0,
                    Status |-> "idle", DevicesFound |-> 0, PortsFound |-> 0,
                    Error |-> NoErr]
    /\ prevStatus = "idle"
    /\ pc = [c \in Callers |-> "idle"]
    /\ loc = [c \in Callers |-> LocInit]
    /\ ret = NoRet
    /\ proc = {}
    /\ runs = 0
    /\ store = EmptyStore
    /\ fkEnforced = TRUE
    /\ scanUpdates = [id \in {} |-> 0]
    /\ now = StartOfTime
    /\ call = NoCall
    /\ dbLock = 0
    /\ conn = 0
    /\ work = NoTx
    /\ thr = [t \in Threads |-> ThreadIdle]
    /\ saved = {}
    /\ scanLock = 0
    /\ gor = [g \in Callers |-> GorIdle]
    /\ mainFile = EmptyStore
    /\ backups = [p \in {} |-> EmptyStore]
    /\ rt = NoRetry
    /\ built = NoBuild
    /\ snapshot = <<>>
    /\ trig = NoTrigger

\* ------------------------------------------------------------ orchestrator
\* ScanService.GetStatus: a copy of the status record, taken under scanLock
GetStatus == scanStats

\* assignment to the status record, remembering the status it replaces
SetStats(new) ==
    /\ scanStats' = new
    /\ prevStatus' = IF new.Status # scanStats.Status THEN scanStats.Status
                     ELSE prevStatus

\* an error that is noted while the status is left as it is
updateScanErrorKeepsStatus(err) ==
    SetStats([scanStats EXCEPT !.Error = err])

\* ScanService.updateScanError
updateScanError(err) ==
    SetStats([scanStats EXCEPT !.Status = "error", !.Error = err])

\* entry without the isScanning check
SingleFlightUnchecked(c, op, params) ==
    /\ pc[c] = "idle"
    /\ runs < MaxRuns
    /\ isScanning' = TRUE
    /\ SetStats([ScanID |-> 0, StartTime |-> now, EndTime |-> 0,
                 Status |-> "running", DevicesFound |-> 0,
                 PortsFound |-> 0, Error |-> NoErr])
    /\ runs' = runs + 1
    /\ pc' = [pc EXCEPT ![c] = "entered"]
    /\ loc' = [loc EXCEPT ![c] = [LocInit EXCEPT !.op = op, !.params = params,
                                                 !.run = runs + 1]]
    /\ UNCHANGED <<client, mockModeForTesting, targetNetwork, ret, proc, store,
                   fkEnforced, scanUpdates, now>>

\* the single-flight check and the switch to running, under scanLock: what
\* it does to the service
EnterStep(c, op, params) ==
    /\ pc[c] = "idle"
    /\ IF isScanning
       THEN /\ ret' = [id |-> 0, err |-> ErrAlreadyRunning, kind |-> "rejected"]
            /\ UNCHANGED <<isScanning, scanStats, prevStatus, pc, loc, runs>>
       ELSE /\ runs < MaxRuns
            /\ isScanning' = TRUE
            /\ SetStats([ScanID |-> 0, StartTime |-> now, EndTime |-> 0,
                         Status |-> "running", DevicesFound |-> 0,
                         PortsFound |-> 0, Error |-> NoErr])
            /\ runs' = runs + 1
            /\ pc' = [pc EXCEPT ![c] = "entered"]
            /\ loc' = [loc EXCEPT ![c] = [LocInit EXCEPT !.op = op,
                                                         !.params = params,
                                                         !.run = runs + 1]]
            /\ UNCHANGED ret

\* the single-flight check and the switch to running, under scanLock
SingleFlight(c, op, params) ==
    /\ EnterStep(c, op, params)
    /\ UNCHANGED <<client, mockModeForTesting, targetNetwork, proc, store, fkEnforced,
                   scanUpdates, now>>

\* RunScan, lines 319-333
RunScanEnter(c) ==
    \E name \in IF isScanning THEN {"thorough"} ELSE RequestedTemplates :
        SingleFlight(c, "RunScan", RunScanParams(name))

\* RunManualScan, lines 501-515
RunManualScanEnter(c) ==
    \E params \in IF isScanning THEN {RunScanParams("thorough")} ELSE ManualParams :
        SingleFlight(c, "RunManualScan", params)

\* a return statement: the values are kept until the deferred function ran
Return(c, id, err) ==
    /\ pc' = [pc EXCEPT ![c] = "cleanup"]
    /\ loc' = [loc EXCEPT ![c].ret = [id |-> id, err |-> err, kind |-> "ran"]]

\* template lookup and, in RunScan, command building
Resolve(c) ==
    /\ pc[c] = "entered"
    /\ LET l == loc[c]
           t == getScanTemplate(l.params.Template)
           path == OutputPath(l.run)
       IN  IF mockModeForTesting
           THEN /\ pc' = [pc EXCEPT ![c] = "create"]
                /\ UNCHANGED <<loc, scanStats, prevStatus>>
           ELSE IF t.err # NoErr
           THEN updateScanError(t.err) /\ Return(c, 0, t.err)
           ELSE IF l.op = "RunScan"
           THEN LET r == prepareScanCommand(t.template, path, targetNetwork)
                IN  IF r.err # NoErr
                    THEN updateScanError(r.err) /\ Return(c, 0, r.err)
                    ELSE /\ loc' = [loc EXCEPT ![c].template = t.template,
                                               ![c].cmd = r.cmd]
                         /\ pc' = [pc EXCEPT ![c] = "create"]
                         /\ UNCHANGED <<scanStats, prevStatus>>
           ELSE /\ loc' = [loc EXCEPT ![c].template =
                              IF l.params.RateLimit > 0
                              THEN [t.template EXCEPT !.RateLimit = l.params.RateLimit]
                              ELSE t.template]
                /\ pc' = [pc EXCEPT ![c] = "create"]
                /\ UNCHANGED <<scanStats, prevStatus>>
    /\ UNCHANGED <<client, mockModeForTesting, targetNetwork, isScanning, ret, proc, runs,
                   store, fkEnforced, scanUpdates, now>>

\* the message that wraps a CreateScan failure
RecordFailure(op) ==
    IF mockModeForTesting
    THEN IF op = "RunScan" THEN "failed to record mock scan in database"
         ELSE "failed to record mock manual scan in database"
    ELSE "failed to record scan in database"

\* s.db.CreateScan(templateName) and the handling of its failure
Create(c) ==
    /\ pc[c] = "create"
    /\ \E ok \in BOOLEAN :
          IF ok
          THEN LET r == CreateScan(store, loc[c].params.Template, now)
               IN  /\ store' = r.store
                   /\ scanUpdates' = [id \in DOMAIN scanUpdates \cup {r.id} |->
                                        IF id = r.id THEN 0 ELSE scanUpdates[id]]
                   /\ loc' = [loc EXCEPT ![c].dbScanID = r.id]
                   /\ pc' = [pc EXCEPT ![c] = "setid"]
                   /\ UNCHANGED <<scanStats, prevStatus>>
          ELSE LET err == Wrap("failed to create scan", ErrSql)
               IN  /\ updateScanError(Wrap(RecordFailure(loc[c].op), err))
                   /\ Return(c, 0, err)
                   /\ UNCHANGED <<store, scanUpdates>>
    /\ UNCHANGED <<client, mockModeForTesting, targetNetwork, isScanning, ret, proc, runs,
                   fkEnforced, now>>

\* a mock mode that goes on to the external tool
SetScanIDLaunches(c) ==
    /\ pc[c] = "setid"
    /\ SetStats([scanStats EXCEPT !.ScanID = loc[c].dbScanID])
    /\ pc' = [pc EXCEPT ![c] = IF loc[c].op = "RunManualScan"
                                THEN "prepare" ELSE "pipes"]
    /\ UNCHANGED <<loc, client, mockModeForTesting, targetNetwork, isScanning, ret,
                   proc, runs, store, fkEnforced, scanUpdates, now>>

\* s.scanStats.ScanID = dbScanID, under scanLock
SetScanID(c) ==
    /\ pc[c] = "setid"
    /\ SetStats([scanStats EXCEPT !.ScanID = loc[c].dbScanID])
    /\ IF mockModeForTesting
       THEN /\ loc' = [loc EXCEPT
                         ![c].deviceCount = IF loc[c].op = "RunScan" THEN 5 ELSE 3,
                         ![c].portCount = IF loc[c].op = "RunScan" THEN 15 ELSE 10]
            /\ pc' = [pc EXCEPT ![c] = "finalupdate"]
       ELSE /\ pc' = [pc EXCEPT ![c] = IF loc[c].op = "RunManualScan"
                                       THEN "prepare" ELSE "pipes"]
            /\ UNCHANGED loc
    /\ UNCHANGED <<client, mockModeForTesting, targetNetwork, isScanning, ret, proc, runs,
                   store, fkEnforced, scanUpdates, now>>

\* RunManualScan: prepareManualScanCommand and the handling of its failure
Prepare(c) ==
    /\ pc[c] = "prepare"
    /\ LET l == loc[c]
           r == prepareManualScanCommand(l.template, OutputPath(l.run), l.params,
                                         targetNetwork)
       IN  IF r.err # NoErr
           THEN /\ updateScanError(r.err)
                /\ loc' = [loc EXCEPT ![c].err = r.err]
                /\ pc' = [pc EXCEPT ![c] = "errupdate"]
           ELSE /\ loc' = [loc EXCEPT ![c].cmd = r.cmd]
                /\ pc' = [pc EXCEPT ![c] = "pipes"]
                /\ UNCHANGED <<scanStats, prevStatus>>
    /\ UNCHANGED <<client, mockModeForTesting, targetNetwork, isScanning, ret, proc, runs,
                   store, fkEnforced, scanUpdates, now>>

\* nmapCmd.StdoutPipe() and nmapCmd.StderrPipe()
Pipes(c) ==
    /\ pc[c] = "pipes"
    /\ \E ok \in BOOLEAN :
          IF ok
          THEN /\ pc' = [pc EXCEPT ![c] = "start"]
               /\ UNCHANGED <<loc, scanStats, prevStatus>>
          ELSE /\ updateScanError(ErrPipe)
               /\ Return(c, loc[c].dbScanID, ErrPipe)
    /\ UNCHANGED <<client, mockModeForTesting, targetNetwork, isScanning, ret, proc, runs,
                   store, fkEnforced, scanUpdates, now>>

\* nmapCmd.Start()
Start(c) ==
    /\ pc[c] = "start"
    /\ \E ok \in BOOLEAN :
          IF ok
          THEN /\ proc' = proc \cup {c}
               /\ pc' = [pc EXCEPT ![c] = "wait"]
               /\ UNCHANGED <<loc, scanStats, prevStatus>>
          ELSE /\ updateScanError(Wrap("failed to start nmap", ErrExec))
               /\ loc' = [loc EXCEPT ![c].err = ErrExec]
               /\ pc' = [pc EXCEPT ![c] = "errupdate"]
               /\ UNCHANGED proc
    /\ UNCHANGED <<client, mockModeForTesting, targetNetwork, isScanning, ret, runs,
                   store, fkEnforced, scanUpdates, now>>

\* nmapCmd.Wait()
Wait(c) ==
    /\ pc[c] = "wait"
    /\ proc' = proc \ {c}
    /\ \E exit \in {0, 1} :
          IF exit = 0
          THEN /\ pc' = [pc EXCEPT ![c] = "process"]
               /\ UNCHANGED <<loc, scanStats, prevStatus>>
          ELSE /\ updateScanError(Wrap("nmap command failed", ErrExit))
               /\ loc' = [loc EXCEPT ![c].err = ErrExit]
               /\ pc' = [pc EXCEPT ![c] = "errupdate"]
    /\ UNCHANGED <<client, mockModeForTesting, targetNetwork, isScanning, ret, runs,
                   store, fkEnforced, scanUpdates, now>>

\* processScanResults: reading and parsing the output file
ReadResults(c) ==
    /\ pc[c] = "process"
    /\ \E err \in {NoErr, ErrRead, ErrXml} :
          IF err = NoErr
          THEN /\ pc' = [pc EXCEPT ![c] = "hosts"]
               /\ UNCHANGED <<loc, scanStats, prevStatus>>
          ELSE /\ updateScanError(Wrap("failed to process scan results", err))
               /\ loc' = [loc EXCEPT ![c].err = err, ![c].deviceCount = 0,
                                     ![c].portCount = 0]
               /\ pc' = [pc EXCEPT ![c] = "errupdate"]
    /\ UNCHANGED <<client, mockModeForTesting, targetNetwork, isScanning, ret, proc, runs,
                   store, fkEnforced, scanUpdates, now>>

\* a loop that is left, with an error, at the record it cannot use
ContinueAsReturn(c, seen) ==
    /\ loc' = [seen EXCEPT ![c].err = ErrXml]
    /\ pc' = [pc EXCEPT ![c] = "errupdate"]

\* a call of s.db.SaveDevice or s.db.SavePort was made by the run of c: the
\* locals of c with one more call of that kind
CalledTwice(seen, c, kind) == [seen EXCEPT ![c][kind] = @ + 2]

Called(seen, c, kind) == [seen EXCEPT ![c][kind] = @ + 1]

\* the continue statements of processScanResults: on to the next record
Continue(c, seen) ==
    /\ loc' = seen
    /\ UNCHANGED pc

\* processScanResults: one iteration of the loop over result.Hosts, for one
\* of the hosts given, if there are more, or the end of the loop, if it ended
HostStep(c, hosts, ended, more) ==
    /\ pc[c] = "hosts"
    /\ \/ /\ ended
          /\ pc' = [pc EXCEPT ![c] = "finalupdate"]
          /\ UNCHANGED <<loc, store>>
       \/ /\ more
          /\ \E host \in hosts, fault \in StoreFaults :
                LET device == DeviceOf(host, now)
                    seen == [loc EXCEPT ![c].hostsSeen = @ + 1]
                    r == SaveDevice(store, device, now, fkEnforced, fault)
                IN  IF host.state # "up" \/ device.IPAddress = ""
                    THEN /\ fault = "none"
                         /\ Continue(c, seen)
                         /\ UNCHANGED store
                    ELSE /\ store' = r.store
                         /\ IF r.err # NoErr
                            THEN Continue(c, Called(seen, c, "deviceCalls"))
                            ELSE /\ loc' = [Called(seen, c, "deviceCalls")
                                             EXCEPT ![c].deviceCount = @ + 1,
                                                        ![c].deviceID = r.id,
                                                        ![c].portsSeen = 0]
                                 /\ pc' = [pc EXCEPT ![c] = "ports"]

\* processScanResults: one iteration of the loop over result.Hosts, or its end
MergeHost(c) ==
    /\ HostStep(c, ScanHosts, TRUE, loc[c].hostsSeen < MaxHosts)
    /\ UNCHANGED <<client, mockModeForTesting, targetNetwork, isScanning, scanStats,
                   prevStatus, ret, proc, runs, fkEnforced, scanUpdates, now>>

\* processScanResults: one iteration of the loop over host.Ports.Port, for
\* one of the ports given, if there are more, or the end of the loop
PortStep(c, ports, ended, more) ==
    /\ pc[c] = "ports"
    /\ \/ /\ ended
          /\ pc' = [pc EXCEPT ![c] = "hosts"]
          /\ UNCHANGED <<loc, store>>
       \/ /\ more
          /\ \E port \in ports, fault \in StoreFaults :
                LET portNum == Atoi(port.portid)
                    seen == [loc EXCEPT ![c].portsSeen = @ + 1]
                    r == SavePort(store, PortOf(port, loc[c].deviceID,
                                                portNum.value, now),
                                  now, fkEnforced, fault)
                IN  IF port.state # "open" \/ ~portNum.ok
                    THEN /\ fault = "none"
                         /\ Continue(c, seen)
                         /\ UNCHANGED store
                    ELSE /\ store' = r.store
                         /\ IF r.err # NoErr
                            THEN Continue(c, Called(seen, c, "portCalls"))
                            ELSE /\ loc' = [Called(seen, c, "portCalls")
                                             EXCEPT ![c].portCount = @ + 1]
                                 /\ UNCHANGED pc

\* processScanResults: one iteration of the loop over host.Ports.Port, or its end
MergePort(c) ==
    /\ PortStep(c, ScanPorts, TRUE, loc[c].portsSeen < MaxPorts)
    /\ UNCHANGED <<client, mockModeForTesting, targetNetwork, isScanning, scanStats,
                   prevStatus, ret, proc, runs, fkEnforced, scanUpdates, now>>

\* the effect of one updateScanInDB call on the store and its history
ApplyScanUpdate(c, status, ok) ==
    LET l == loc[c]
    IN  IF ok
        THEN /\ store' = updateScanInDB(store, l.dbScanID, status, l.deviceCount,
                                        l.portCount, now - scanStats.StartTime)
             /\ scanUpdates' =
                   [id \in DOMAIN scanUpdates |->
                      IF id = l.dbScanID /\ ScanRows(store, id) # {}
                      THEN scanUpdates[id] + 1 ELSE scanUpdates[id]]
        ELSE UNCHANGED <<store, scanUpdates>>

\* the error paths that call s.updateScanInDB(dbScanID, "error", ...) and
\* return without looking at its result
ErrorUpdate(c) ==
    /\ pc[c] = "errupdate"
    /\ \E ok \in BOOLEAN : ApplyScanUpdate(c, "error", ok)
    /\ Return(c, loc[c].dbScanID, loc[c].err)
    /\ UNCHANGED <<client, mockModeForTesting, targetNetwork, isScanning, scanStats,
                   prevStatus, ret, proc, runs, fkEnforced, now>>

\* s.updateScanInDB(dbScanID, "completed", ...); a failure is only logged
FinalUpdate(c) ==
    /\ pc[c] = "finalupdate"
    /\ \E ok \in BOOLEAN : ApplyScanUpdate(c, "completed", ok)
    /\ pc' = [pc EXCEPT ![c] = "setdone"]
    /\ UNCHANGED <<client, mockModeForTesting, targetNetwork, isScanning, scanStats,
                   prevStatus, loc, ret, proc, runs, fkEnforced, now>>

\* the final status, under scanLock, and return dbScanID, nil
SetCompleted(c) ==
    /\ pc[c] = "setdone"
    /\ SetStats([scanStats EXCEPT !.Status = "completed",
                                  !.DevicesFound = loc[c].deviceCount,
                                  !.PortsFound = loc[c].portCount])
    /\ Return(c, loc[c].dbScanID, NoErr)
    /\ UNCHANGED <<client, mockModeForTesting, targetNetwork, isScanning, ret, proc, runs,
                   store, fkEnforced, scanUpdates, now>>

\* a return that leaves the isScanning flag set
CleanupKeepsFlag(c) ==
    /\ pc[c] = "cleanup"
    /\ SetStats([scanStats EXCEPT !.EndTime = now])
    /\ ret' = loc[c].ret
    /\ loc' = [loc EXCEPT ![c] = LocInit]
    /\ pc' = [pc EXCEPT ![c] = "idle"]
    /\ UNCHANGED <<client, mockModeForTesting, targetNetwork, isScanning, proc, runs,
                   store, fkEnforced, scanUpdates, now>>

\* a return that puts the status back to idle
CleanupToIdle(c) ==
    /\ pc[c] = "cleanup"
    /\ isScanning' = FALSE
    /\ SetStats([scanStats EXCEPT !.EndTime = now, !.Status = "idle"])
    /\ ret' = loc[c].ret
    /\ loc' = [loc EXCEPT ![c] = LocInit]
    /\ pc' = [pc EXCEPT ![c] = "idle"]
    /\ UNCHANGED <<client, mockModeForTesting, targetNetwork, proc, runs, store,
                   fkEnforced, scanUpdates, now>>

\* the deferred function, then the return to the caller
Cleanup(c) ==
    /\ pc[c] = "cleanup"
    /\ isScanning' = FALSE
    /\ SetStats([scanStats EXCEPT !.EndTime = now])
    /\ ret' = loc[c].ret
    /\ loc' = [loc EXCEPT ![c] = LocInit]
    /\ pc' = [pc EXCEPT ![c] = "idle"]
    /\ UNCHANGED <<client, mockModeForTesting, targetNetwork, proc, runs, store,
                   fkEnforced, scanUpdates, now>>

\* ------------------------------------------------------------- environment
\* the clock is observed half an hour or two days later
ClockUsed == ((now - StartOfTime) \div (2 * Day)) + ((now - StartOfTime) % (2 * Day))

Tick ==
    /\ ClockUsed < MaxTicks
    /\ \E d \in {1, 2 * Day} : now' = now + d
    /\ UNCHANGED <<client, mockModeForTesting, targetNetwork, isScanning, scanStats,
                   prevStatus, pc, loc, ret, proc, runs, store, fkEnforced,
                   scanUpdates>>

\* the pool replaces the connection after SetConnMaxLifetime(time.Hour); the
\* new connection has not run PRAGMA foreign_keys=ON
ConnRecycle ==
    /\ fkEnforced
    /\ now - StartOfTime >= Hour
    /\ fkEnforced' = FALSE
    /\ UNCHANGED <<client, mockModeForTesting, targetNetwork, isScanning, scanStats,
                   prevStatus, pc, loc, ret, proc, runs, store, scanUpdates, now>>

\* a retention sweep: DB.CleanOldData(retentionDays)
Retention ==
    /\ \E days \in RetentionChoices, fault \in StoreFaults :
          store' = CleanOldData(store, days, now, fkEnforced, fault).store
    /\ UNCHANGED <<client, mockModeForTesting, targetNetwork, isScanning, scanStats,
                   prevStatus, pc, loc, ret, proc, runs, fkEnforced,
                   scanUpdates, now>>

Next ==
    \/ \E c \in Callers :
          \/ RunScanEnter(c) \/ RunManualScanEnter(c) \/ Resolve(c)
          \/ Create(c) \/ SetScanID(c) \/ Prepare(c) \/ Pipes(c) \/ Start(c)
          \/ Wait(c) \/ ReadResults(c) \/ MergeHost(c) \/ MergePort(c)
          \/ ErrorUpdate(c) \/ FinalUpdate(c) \/ SetCompleted(c) \/ Cleanup(c)
    \/ Tick
    \/ ConnRecycle
    \/ Retention

Spec == Init /\ [][Next]_vars

\* ------------------------------------------- the store called on its own
\* the AUTOINCREMENT counters of the store st are within the row caps
WithinRowCaps(st) ==
    /\ st.nextDev <= MaxDeviceRows + 1
    /\ st.nextPort <= MaxPortRows + 1
    /\ st.nextChange <= MaxChangeRows + 1

\* the fields of a models.Device that an observation carries
Observed(device) ==
    [IPAddress |-> device.IPAddress, MACAddress |-> device.MACAddress,
     Hostname |-> device.Hostname, OSFingerprint |-> device.OSFingerprint]

\* the fields of a models.Port that an observation carries
ObservedPort(port) ==
    [DeviceID |-> port.DeviceID, PortNumber |-> port.PortNumber,
     Protocol |-> port.Protocol, ServiceName |-> port.ServiceName,
     ServiceVersion |-> port.ServiceVersion]

\* the record of a call and of what it returned. A call that failed leaves
\* nothing a later call is compared with, so its argument and time are not
\* kept; repeat says that the call before it was the same call, succeeded, and
\* fell into the same hour
Recorded(op, arg, id, err, count) ==
    IF err # NoErr
    THEN [NoCall EXCEPT !.op = op, !.id = id, !.err = err, !.count = count]
    ELSE [op |-> op, arg |-> arg, id |-> id, err |-> err, count |-> count,
          at |-> Truncate(now),
          repeat |-> /\ call.op = op /\ call.err = NoErr
                     /\ call.arg = arg
                     /\ call.at = Truncate(now)]

\* a client of the store calls DB.SaveDevice with a device out of hosts
ClientSaveDevice(hosts) ==
    /\ \E host \in hosts, fault \in StoreFaults :
          LET device == DeviceOf(host, now)
              r == SaveDevice(store, device, now, fkEnforced, fault)
          IN  /\ store' = r.store
              /\ call' = Recorded("SaveDevice", Observed(device), r.id, r.err, 0)
    /\ WithinRowCaps(store')
    /\ UNCHANGED threads
    /\ UNCHANGED <<mockModeForTesting, targetNetwork, isScanning, scanStats,
                   prevStatus, pc, loc, ret, proc, runs, fkEnforced,
                   scanUpdates, now>>

\* the devices direct calls save: one address reported in three ways, and a
\* second address
StoreHosts ==
    {h \in HostElems :
        LastAddr(h.addresses, "ipv4") = "10.0.0.1" \/ h.state = "down"}

CallSaveDevice == ClientSaveDevice(StoreHosts)

\* a client of the store calls DB.SavePort with a port out of ports
ClientSavePort(ports) ==
    /\ \E elem \in ports, deviceID \in 1..MaxDeviceRows,
          fault \in StoreFaults :
          LET port == PortOf(elem, deviceID, Atoi(elem.portid).value, now)
              r == SavePort(store, port, now, fkEnforced, fault)
          IN  /\ Atoi(elem.portid).ok
              /\ store' = r.store
              /\ call' = Recorded("SavePort", ObservedPort(port), 0, r.err, 0)
    /\ WithinRowCaps(store')
    /\ UNCHANGED threads
    /\ UNCHANGED <<mockModeForTesting, targetNetwork, isScanning, scanStats,
                   prevStatus, pc, loc, ret, proc, runs, fkEnforced,
                   scanUpdates, now>>

CallSavePort == ClientSavePort(PortElems)

\* a client of the store calls DB.CreateScan
CallCreateScan ==
    /\ store.nextScan <= MaxScanRows
    /\ LET r == CreateScan(store, "default", now)
       IN  /\ store' = r.store
           /\ scanUpdates' = [id \in DOMAIN scanUpdates \cup {r.id} |->
                                IF id = r.id THEN 0 ELSE scanUpdates[id]]
           /\ call' = Recorded("CreateScan", <<"default">>, r.id, NoErr, 0)
    /\ UNCHANGED threads
    /\ UNCHANGED <<mockModeForTesting, targetNetwork, isScanning, scanStats,
                   prevStatus, pc, loc, ret, proc, runs, fkEnforced, now>>

\* DB.AddLogEntry: INSERT INTO logs
AddLogEntry(st, level, t) ==
    [st EXCEPT !.logs = @ \cup {[id |-> st.nextLog, level |-> level,
                                 timestamp |-> t]},
               !.nextLog = @ + 1]

\* a client of the store calls DB.AddLogEntry
CallAddLogEntry ==
    /\ store.nextLog <= MaxLogRows
    /\ store' = AddLogEntry(store, "info", now)
    /\ call' = Recorded("AddLogEntry", <<"info">>, 0, NoErr, 0)
    /\ UNCHANGED threads
    /\ UNCHANGED <<mockModeForTesting, targetNetwork, isScanning, scanStats,
                   prevStatus, pc, loc, ret, proc, runs, fkEnforced,
                   scanUpdates, now>>

\* a client of the store calls DB.CleanOldData
CallCleanOldData ==
    /\ \E days \in RetentionChoices, fault \in StoreFaults :
          LET r == CleanOldData(store, days, now, fkEnforced, fault)
          IN  /\ store' = r.store
              /\ call' = Recorded("CleanOldData", <<days>>, 0, r.err, r.count)
    /\ UNCHANGED threads
    /\ UNCHANGED <<mockModeForTesting, targetNetwork, isScanning, scanStats,
                   prevStatus, pc, loc, ret, proc, runs, fkEnforced,
                   scanUpdates, now>>

\* the clock is observed again within the hour
TickSoon == Tick /\ now' < now + Hour

\* the store under direct calls made within an hour of its opening
NextStore ==
    \/ CallSaveDevice
    \/ CallSavePort
    \/ CallCreateScan
    \/ CallCleanOldData
    \/ TickSoon

InitStore == Init /\ ~mockModeForTesting /\ targetNetwork = ConfigNet

SpecStore == InitStore /\ [][NextStore]_vars

\* the store over days: what one scan reports is saved, scans and log entries
\* are written, and the retention sweep runs
SaveScannedDevice == ClientSaveDevice(ScanHosts)

SaveScannedPort == ClientSavePort(ScanPorts)

NextRetention ==
    \/ SaveScannedDevice
    \/ SaveScannedPort
    \/ CallCreateScan
    \/ CallAddLogEntry
    \/ CallCleanOldData
    \/ Tick
    \/ ConnRecycle

SpecRetention == InitStore /\ [][NextRetention]_vars

\* ------------------------------------------- threads inside store methods
\* sync.Mutex and the pool of one connection: free when no thread holds it
FreeAlways(holder) == TRUE

Free(holder) == holder = 0

\* the devices concurrent callers save: one key seen twice, and another key
ConnHosts == {h \in StoreHosts : Len(h.addresses) = 2 \/ h.state = "down"}

\* the store methods that run a transaction under db.Lock
TxOps == {"SaveDevice", "SavePort", "CleanOldData"}

\* the store methods that are one db.Exec
ExecOps == {"CreateScan", "UpdateScan", "AddLogEntry"}

\* the store methods that are one db.Query
QueryOps == {"GetAllDevices"}

\* the key of a device
KeyOf(device) == <<device.IPAddress, device.MACAddress>>

\* what a statement on the connection sees: the open transaction, if any
View == IF work.open THEN work.st ELSE store

\* a thread enters the store method op with the arguments arg
Enter(t, op, arg) ==
    /\ thr[t].pc = "idle" /\ thr[t].left > 0
    /\ thr' = [thr EXCEPT ![t] =
                 [pc |-> IF op \in TxOps THEN "lock"
                         ELSE IF op \in ExecOps THEN "exec" ELSE "query",
                  op |-> op, arg |-> arg, id |-> 0, err |-> NoErr,
                  res |-> {}, left |-> thr[t].left - 1]]
    /\ UNCHANGED <<scanner, store, fkEnforced, scanUpdates, now, call,
                   dbLock, conn, work, saved>>

\* a thread calls a store method
Invoke(t) ==
    \/ \E h \in ConnHosts : Enter(t, "SaveDevice", DeviceOf(h, now))
    \/ \E e \in {x \in ScanPorts : x.state = "open"} :
          Enter(t, "SavePort", PortOf(e, 1, Atoi(e.portid).value, now))
    \/ \E d \in RetentionChoices : Enter(t, "CleanOldData", <<d>>)
    \/ Enter(t, "CreateScan", <<"default">>)
    \/ Enter(t, "UpdateScan", <<1, "completed">>)
    \/ Enter(t, "AddLogEntry", <<"info">>)
    \/ Enter(t, "GetAllDevices", <<>>)

\* db.Lock()
Lock(t) ==
    /\ thr[t].pc = "lock"
    /\ Free(dbLock)
    /\ dbLock' = t
    /\ thr' = [thr EXCEPT ![t].pc = "begin"]
    /\ UNCHANGED <<scanner, store, fkEnforced, scanUpdates, now, call,
                   conn, work, saved>>

\* db.Begin(): the transaction takes the connection until it ends
Begin(t) ==
    /\ thr[t].pc = "begin"
    /\ Free(conn)
    /\ conn' = t
    /\ work' = [open |-> TRUE, st |-> store]
    /\ thr' = [thr EXCEPT ![t].pc = "body"]
    /\ UNCHANGED <<scanner, store, fkEnforced, scanUpdates, now, call,
                   dbLock, saved>>

\* the statements of the method, run inside its transaction
Body(t) ==
    /\ thr[t].pc = "body"
    /\ LET a == thr[t].arg
           r == IF thr[t].op = "SaveDevice"
                THEN SaveDevice(work.st, a, now, fkEnforced, "none")
                ELSE IF thr[t].op = "SavePort"
                THEN [id |-> 0] @@ SavePort(work.st, a, now, fkEnforced, "none")
                ELSE [id |-> 0] @@
                     CleanOldData(work.st, a[1], now, fkEnforced, "none")
       IN  /\ work' = [work EXCEPT !.st = r.store]
           /\ thr' = [thr EXCEPT ![t].id = r.id, ![t].err = r.err,
                                 ![t].pc = IF r.err = NoErr THEN "commit"
                                           ELSE "rollback"]
    /\ UNCHANGED <<scanner, store, fkEnforced, scanUpdates, now, call,
                   dbLock, conn, saved>>

\* tx.Commit(): the transaction becomes the store, or fails and is discarded
Commit(t) ==
    /\ thr[t].pc = "commit"
    /\ \E fault \in {"none", "commit"} :
          IF fault = "none"
          THEN /\ store' = work.st
               /\ saved' = IF thr[t].op = "SaveDevice"
                           THEN saved \cup {KeyOf(thr[t].arg)} ELSE saved
               /\ thr' = [thr EXCEPT ![t].pc = "unlock"]
          ELSE /\ UNCHANGED <<store, saved>>
               /\ thr' = [thr EXCEPT
                            ![t].pc = "unlock", ![t].id = 0,
                            ![t].err = Wrap("failed to commit transaction",
                                            ErrSql)]
    /\ work' = NoTx
    /\ conn' = 0
    /\ UNCHANGED <<scanner, fkEnforced, scanUpdates, now, call, dbLock>>

\* the deferred tx.Rollback() of a method that returns an error
Rollback(t) ==
    /\ thr[t].pc = "rollback"
    /\ work' = NoTx
    /\ conn' = 0
    /\ thr' = [thr EXCEPT ![t].pc = "unlock"]
    /\ UNCHANGED <<scanner, store, fkEnforced, scanUpdates, now, call,
                   dbLock, saved>>

\* the deferred db.Unlock(), and the return
Unlock(t) ==
    /\ thr[t].pc = "unlock"
    /\ dbLock' = 0
    /\ thr' = [thr EXCEPT ![t].pc = "idle"]
    /\ UNCHANGED <<scanner, store, fkEnforced, scanUpdates, now, call,
                   conn, work, saved>>

\* db.Exec outside a transaction takes the connection for its statement
ExecStart(t) ==
    /\ thr[t].pc = "exec"
    /\ Free(conn)
    /\ conn' = t
    /\ thr' = [thr EXCEPT ![t].pc = "executing"]
    /\ UNCHANGED <<scanner, store, fkEnforced, scanUpdates, now, call,
                   dbLock, work, saved>>

\* the statement of CreateScan, UpdateScan or AddLogEntry runs and commits by
\* itself; the connection goes back to the pool
ExecDone(t) ==
    /\ thr[t].pc = "executing"
    /\ IF thr[t].op = "CreateScan"
       THEN LET r == CreateScan(store, thr[t].arg[1], now)
            IN  /\ store' = r.store
                /\ scanUpdates' = [id \in DOMAIN scanUpdates \cup {r.id} |->
                                     IF id = r.id THEN 0 ELSE scanUpdates[id]]
                /\ thr' = [thr EXCEPT ![t].pc = "idle", ![t].id = r.id]
       ELSE IF thr[t].op = "UpdateScan"
       THEN /\ store' = UpdateScan(store, thr[t].arg[1], thr[t].arg[2],
                                   0, 0, 0, "")
            /\ scanUpdates' =
                  [id \in DOMAIN scanUpdates |->
                     IF id = thr[t].arg[1] /\ store' # store
                     THEN scanUpdates[id] + 1 ELSE scanUpdates[id]]
            /\ thr' = [thr EXCEPT ![t].pc = "idle"]
       ELSE /\ store' = AddLogEntry(store, thr[t].arg[1], now)
            /\ thr' = [thr EXCEPT ![t].pc = "idle"]
            /\ UNCHANGED scanUpdates
    /\ conn' = 0
    /\ UNCHANGED <<scanner, fkEnforced, now, call, dbLock, work, saved>>

\* db.Query of GetAllDevices takes the connection, reads what the connection
\* shows, and gives the connection back when the rows are closed
Query(t) ==
    /\ thr[t].pc = "query"
    /\ Free(conn)
    /\ thr' = [thr EXCEPT ![t].pc = "idle", ![t].res = View.devices]
    /\ UNCHANGED <<scanner, store, fkEnforced, scanUpdates, now, call,
                   dbLock, conn, work, saved>>

NextConn ==
    \E t \in Threads :
       \/ Invoke(t) \/ Lock(t) \/ Begin(t) \/ Body(t) \/ Commit(t)
       \/ Rollback(t) \/ Unlock(t) \/ ExecStart(t) \/ ExecDone(t) \/ Query(t)

SpecConn == InitStore /\ [][NextConn]_vars

\* ------------------------------------------------------------ backups
\* the backup file name: the base name of the store and time.Now(), which
\* "20060102_150405" formats to the second
BackupPath(t) == t

\* a thread calls BackupDatabase
BackupCall(t) ==
    /\ thr[t].pc = "idle" /\ thr[t].left > 0
    /\ thr' = [thr EXCEPT ![t] = [ThreadIdle EXCEPT !.pc = "backuplock",
                                                    !.op = "BackupDatabase",
                                                    !.left = thr[t].left - 1]]
    /\ UNCHANGED <<scanner, store, fkEnforced, scanUpdates, now, call,
                   dbLock, conn, work, saved>>

\* BackupDatabase, lines 928-946: db.Lock(), the backup directory, the path
BackupLock(t) ==
    /\ thr[t].pc = "backuplock"
    /\ Free(dbLock)
    /\ dbLock' = t
    /\ \E ok \in BOOLEAN :
          thr' = IF ok
                 THEN [thr EXCEPT ![t].pc = "checkpoint",
                                  ![t].id = BackupPath(now)]
                 ELSE [thr EXCEPT ![t].pc = "backupunlock",
                                  ![t].err = Wrap("failed to create backup directory",
                                                  ErrSql)]
    /\ UNCHANGED <<scanner, store, fkEnforced, scanUpdates, now, call,
                   conn, work, saved>>

\* PRAGMA wal_checkpoint(FULL): the committed pages of the write-ahead log
\* reach the database file, or the checkpoint fails, which is only logged
Checkpoint(t) ==
    /\ thr[t].pc = "checkpoint"
    /\ Free(conn)
    /\ \E done \in BOOLEAN : mainFile' = IF done THEN store ELSE mainFile
    /\ thr' = [thr EXCEPT ![t].pc = "vacuum"]
    /\ UNCHANGED <<mockModeForTesting, targetNetwork, isScanning, scanStats,
                   prevStatus, pc, loc, ret, proc, runs, locks, helpers, store,
                   fkEnforced, scanUpdates, now, call, dbLock, conn, work,
                   saved, backups>>

\* VACUUM INTO 'backupPath': writes what the connection sees to a new file;
\* it fails when the file exists already, and for reasons of its own
VacuumInto(t) ==
    /\ thr[t].pc = "vacuum"
    /\ Free(conn)
    /\ \E ok \in BOOLEAN :
          IF ok /\ thr[t].id \notin DOMAIN backups
          THEN /\ backups' = [p \in DOMAIN backups \cup {thr[t].id} |->
                                IF p = thr[t].id THEN store ELSE backups[p]]
               /\ thr' = [thr EXCEPT ![t].pc = "backupunlock"]
          ELSE /\ thr' = [thr EXCEPT ![t].pc = "copy"]
               /\ UNCHANGED backups
    /\ UNCHANGED <<mockModeForTesting, targetNetwork, isScanning, scanStats,
                   prevStatus, pc, loc, ret, proc, runs, locks, helpers, store,
                   fkEnforced, scanUpdates, now, call, dbLock, conn, work,
                   saved, mainFile>>

\* copyFile(db.Path, backupPath): the bytes of the database file
copyFile(t) ==
    /\ thr[t].pc = "copy"
    /\ \E ok \in BOOLEAN :
          IF ok
          THEN /\ backups' = [p \in DOMAIN backups \cup {thr[t].id} |->
                                IF p = thr[t].id THEN mainFile ELSE backups[p]]
               /\ thr' = [thr EXCEPT ![t].pc = "backupunlock"]
          ELSE /\ thr' = [thr EXCEPT
                            ![t].pc = "backupunlock", ![t].id = 0,
                            ![t].err = Wrap("failed to backup database (both VACUUM INTO and file copy failed)",
                                            ErrSql)]
               /\ UNCHANGED backups
    /\ UNCHANGED <<mockModeForTesting, targetNetwork, isScanning, scanStats,
                   prevStatus, pc, loc, ret, proc, runs, locks, helpers, store,
                   fkEnforced, scanUpdates, now, call, dbLock, conn, work,
                   saved, mainFile>>

\* BackupDatabase: the deferred db.Unlock(), and the return
BackupUnlock(t) ==
    /\ thr[t].pc = "backupunlock"
    /\ dbLock' = 0
    /\ thr' = [thr EXCEPT ![t].pc = "idle"]
    /\ UNCHANGED <<scanner, store, fkEnforced, scanUpdates, now, call,
                   conn, work, saved>>

\* SQLite checkpoints the write-ahead log by itself, at the end of a commit
\* that let it grow; every commit here is made under db.Lock()
AutoCheckpoint ==
    /\ mainFile # store
    /\ \A t \in Threads : thr[t].pc \notin {"checkpoint", "vacuum", "copy",
                                             "backupunlock"}
    /\ Free(conn)
    /\ mainFile' = store
    /\ UNCHANGED <<mockModeForTesting, targetNetwork, isScanning, scanStats,
                   prevStatus, pc, loc, ret, proc, runs, locks, helpers, store,
                   fkEnforced, scanUpdates, now, call, dbLock, conn, work,
                   thr, saved, backups>>

\* New(backupPath).GetAllDevices(): the device rows of the file at the path
DevicesOfBackup(path) == backups[path].devices

NextBackup ==
    \/ \E t \in Threads :
          \/ \E h \in ConnHosts : Enter(t, "SaveDevice", DeviceOf(h, now))
          \/ Lock(t) \/ Begin(t) \/ Body(t) \/ Commit(t) \/ Unlock(t)
          \/ BackupCall(t) \/ BackupLock(t) \/ Checkpoint(t) \/ VacuumInto(t)
          \/ copyFile(t) \/ BackupUnlock(t)
    \/ AutoCheckpoint
    \/ TickSoon

SpecBackup == InitStore /\ [][NextBackup]_vars

\* ---------------------------------------------------- ExecuteWithRetry
\* error texts, word by word; the empty text stands for a nil error
ErrLocked == <<"database", "is", "locked">>
ErrTableLocked == <<"database", "table", "is", "locked">>
ErrServerBusy == <<"server", "busy">>
ErrDiskFull == <<"disk", "full">>

\* what the operation passed to ExecuteWithRetry may return
OperationResults == {NoErr, ErrLocked, ErrTableLocked, ErrServerBusy, ErrDiskFull}

\* strings.Contains
Contains(text, sub) ==
    \E i \in 0..(Len(text) - Len(sub)) : SubSeq(text, i + 1, i + Len(sub)) = sub

\* the errors ExecuteWithRetry retries
Retryable(err) == Contains(err, ErrLocked) \/ Contains(err, <<"busy">>)

\* a time.Duration after an arithmetic operation: two's complement
Duration(n) ==
    LET m == n % (2 ^ DurationBits)
    IN  IF m >= 2 ^ (DurationBits - 1) THEN m - 2 ^ DurationBits ELSE m

\* a loop condition that admits one more attempt
MoreAttemptsInclusive(attempt, maxRetries) == attempt <= maxRetries

\* the loop condition attempt < maxRetries
MoreAttempts(attempt, maxRetries) == attempt < maxRetries

\* fmt.Errorf("database operation failed after %d attempts: %w", maxRetries, err)
FailedAfter(maxRetries, err) ==
    <<"database operation failed after">> \o Itoa(maxRetries)
        \o <<"attempts">> \o err

\* what the steps of ExecuteWithRetry leave alone
RetryFrame ==
    UNCHANGED <<mockModeForTesting, targetNetwork, isScanning, scanStats,
                prevStatus, pc, loc, ret, proc, runs, locks, files, built,
                snapshot, trig, store, fkEnforced, scanUpdates, now, call, dbLock,
                conn, work, thr, saved>>

\* a caller calls db.ExecuteWithRetry(maxRetries, retryDelay, operation)
RetryCall ==
    /\ rt.pc \in {"idle", "done"}
    /\ \E m \in 0..MaxRetriesTried, d \in {1, 3} :
          rt' = [NoRetry EXCEPT !.pc = "loop", !.maxRetries = m,
                                !.retryDelay = d]
    /\ RetryFrame

\* one test of the loop condition and, inside the loop, the call of the
\* operation and what is done with its result
RetryAttempt ==
    /\ rt.pc = "loop"
    /\ IF MoreAttempts(rt.attempt, rt.maxRetries)
       THEN \E err \in OperationResults :
               LET r == [rt EXCEPT !.err = err,
                                   !.results = Append(@, err)]
               IN  rt' = IF err = NoErr
                         THEN [r EXCEPT !.pc = "done", !.ret = NoErr]
                         ELSE IF Retryable(err)
                         THEN [r EXCEPT !.pc = "sleep"]
                         ELSE [r EXCEPT !.pc = "failed"]
       ELSE rt' = [rt EXCEPT !.pc = "failed"]
    /\ RetryFrame

\* time.Sleep(retryDelay); retryDelay = retryDelay * 2; continue
RetrySleep ==
    /\ rt.pc = "sleep"
    /\ rt' = [rt EXCEPT !.pc = "loop",
                        !.waits = Append(@, rt.retryDelay),
                        !.retryDelay = Duration(rt.retryDelay * 2),
                        !.attempt = @ + 1]
    /\ RetryFrame

\* the return after the loop
RetryFail ==
    /\ rt.pc = "failed"
    /\ rt' = [rt EXCEPT !.pc = "done",
                        !.ret = FailedAfter(rt.maxRetries, rt.err)]
    /\ RetryFrame

NextRetry == RetryCall \/ RetryAttempt \/ RetrySleep \/ RetryFail

SpecRetry == InitStore /\ [][NextRetry]_vars

\* ------------------------------------------------- building invocations
\* templates a later version may load from configuration: the port range as
\* one argument, the port range as two arguments, and host discovery off
CustomTemplates ==
    {[Name |-> "custom", NmapArgs |-> args, RateLimit |-> 300] :
        args \in {<<ArgSS, ArgP80, ArgSV>>, <<ArgSS, ArgP, ArgPortRange, ArgSV>>,
                  <<ArgPn, ArgSS>>}}

\* the templates an invocation is built from
CommandTemplates ==
    {getTemplates[name] : name \in DOMAIN getTemplates} \cup CustomTemplates

\* the models.ScanParameters of a manual scan, its template apart
CommandParams ==
    [Template : {""}, TargetNetwork : {NoNetwork, OverrideNet},
     RateLimit : {-5, 0, 250}, ScanAllPorts : BOOLEAN, DisablePing : BOOLEAN]

\* what every step that builds or reads leaves alone
CommandFrame ==
    UNCHANGED <<mockModeForTesting, targetNetwork, isScanning, scanStats,
                prevStatus, pc, loc, ret, proc, runs, locks, files, rt,
                snapshot, trig, store, fkEnforced, scanUpdates, now, call, dbLock,
                conn, work, thr, saved>>

\* what a run keeps of the invocation it built with the n-th output path
Built(op, template, params, r) ==
    [n |-> built.n + 1, op |-> op, template |-> template, params |-> params,
     cmd |-> r.cmd, err |-> r.err, path |-> OutputPath(built.n + 1),
     earlier |-> IF built.n = 0 THEN {} ELSE built.earlier \cup {built.path},
     read |-> <<>>]

\* RunScan, lines 390-408: the output path and prepareScanCommand
BuildScan ==
    /\ built.n < MaxBuilds
    /\ \E template \in CommandTemplates :
          built' = Built("RunScan", template, RunScanParams(template.Name),
                         prepareScanCommand(template, OutputPath(built.n + 1),
                                            targetNetwork))
    /\ CommandFrame

\* RunManualScan, lines 588-616: the rate limit override, the output path and
\* prepareManualScanCommand
BuildManualScan ==
    /\ built.n < MaxBuilds
    /\ \E base \in CommandTemplates, p \in CommandParams :
          LET params == [p EXCEPT !.Template = base.Name]
              template == IF params.RateLimit > 0
                          THEN [base EXCEPT !.RateLimit = params.RateLimit]
                          ELSE base
          IN  built' = Built("RunManualScan", base, params,
                             prepareManualScanCommand(template,
                                                      OutputPath(built.n + 1),
                                                      params, targetNetwork))
    /\ CommandFrame

\* s.processScanResults(outputPath): ioutil.ReadFile(outputPath)
ReadOutput ==
    /\ built.n > 0 /\ built.err = NoErr /\ built.read = <<>>
    /\ built' = [built EXCEPT !.read = built.path]
    /\ CommandFrame

NextCommand == BuildScan \/ BuildManualScan \/ ReadOutput

InitCommand == Init /\ ~mockModeForTesting

SpecCommand == InitCommand /\ [][NextCommand]_vars

\* ------------------------------------------------------------ ingestion
\* the <host> elements of an output file that is followed record by record:
\* a host that is up, a host without an IPv4 address, another host that is
\* up, a host that is down
IngestHosts ==
    {h \in HostElems : h.hostnames \in {<<"router">>, <<"nameless">>}
                       \/ (h.osmatches = <<"Windows 10">>)
                       \/ h.state = "down"}

\* the <port> elements of one host: none, an open port, a port whose number
\* is not a number followed by an open port, or a closed port and an open one
IngestPorts ==
    LET open == CHOOSE p \in PortElems : p.service.product = "nginx"
        named == CHOOSE p \in PortElems : p.protocol = "udp"
        closed == CHOOSE p \in PortElems : p.state = "closed"
    IN  {<<>>, <<open>>, <<named, open>>, <<closed, open>>}

\* the output files
Snapshots ==
    UNION {[1..n -> [host : IngestHosts, ports : IngestPorts]] : n \in 1..MaxSnapshot}

\* the one scan that is followed
IngestEnter(c) ==
    /\ runs = 0
    /\ SingleFlight(c, "RunScan", RunScanParams("thorough"))

\* nmap writes its output file while RunScan waits for it
WriteOutput(c) ==
    /\ pc[c] = "wait"
    /\ snapshot = <<>>
    /\ snapshot' \in Snapshots
    /\ UNCHANGED <<mockModeForTesting, targetNetwork, isScanning, scanStats,
                   prevStatus, pc, loc, ret, proc, runs, locks, files, rt,
                   built, trig, store, fkEnforced, scanUpdates, now, call, dbLock,
                   conn, work, thr, saved>>

\* what the loops of processScanResults leave alone
IngestFrame ==
    UNCHANGED <<client, mockModeForTesting, targetNetwork, isScanning, scanStats,
                prevStatus, ret, proc, runs, fkEnforced, scanUpdates, now>>

\* the loop over result.Hosts, on the hosts of the output file in their order
IngestHost(c) ==
    /\ LET i == loc[c].hostsSeen + 1
       IN  HostStep(c, IF i <= Len(snapshot) THEN {snapshot[i].host} ELSE {},
                    i > Len(snapshot), i <= Len(snapshot))
    /\ IngestFrame

\* a loop over host.Ports.Port that is left before its last port
IngestPortLeaves(c) ==
    /\ pc[c] = "ports"
    /\ PortStep(c, {}, TRUE, FALSE)
    /\ IngestFrame

\* the loop over host.Ports.Port, on the ports of the host in their order
IngestPort(c) ==
    /\ pc[c] = "ports"
    /\ LET ports == snapshot[loc[c].hostsSeen].ports
           j == loc[c].portsSeen + 1
       IN  PortStep(c, IF j <= Len(ports) THEN {ports[j]} ELSE {},
                    j > Len(ports), j <= Len(ports))
    /\ IngestFrame

NextIngest ==
    \E c \in Callers :
       \/ IngestEnter(c) \/ Resolve(c) \/ Create(c) \/ SetScanID(c)
       \/ Pipes(c) \/ Start(c) \/ WriteOutput(c) \/ Wait(c) \/ ReadResults(c)
       \/ IngestHost(c) \/ IngestPort(c) \/ ErrorUpdate(c) \/ FinalUpdate(c)
       \/ SetCompleted(c) \/ Cleanup(c)

SpecIngest == InitStore /\ [][NextIngest]_vars

\* ------------------------------------------------------------- triggers
\* the goroutine StartScheduler starts, and the goroutines startScan starts
Scheduler == 1
Requester == 2

\* what the triggers that call nothing leave alone
EventFrame ==
    UNCHANGED <<mockModeForTesting, targetNetwork, isScanning, scanStats,
                prevStatus, pc, loc, ret, proc, runs, locks, files, rt, built,
                snapshot, store, fkEnforced, scanUpdates, now, call, dbLock,
                conn, work, thr, saved>>

\* what the triggers that call the service leave alone
TriggerFrame ==
    UNCHANGED <<mockModeForTesting, targetNetwork, proc, store, fkEnforced,
                scanUpdates, now, call, dbLock, conn, work, thr, saved,
                locks, files, rt, built, snapshot>>

\* time.Ticker: a tick is sent to scanSchedule.C, which holds one tick; a
\* tick that finds the channel full is dropped. during: the tick that is held
\* arrived while the goroutine of the scheduler was inside RunScan
TickerFires ==
    /\ trig.fired < MaxFires
    /\ trig' = [trig EXCEPT !.fired = @ + 1, !.pending = TRUE,
                            !.during = IF trig.pending THEN @
                                      ELSE pc[Scheduler] # "idle"]
    /\ EventFrame

\* StartScheduler, lines 294-301: the goroutine runs the initial scan, or
\* receives a tick from scanSchedule.C and runs a scheduled scan
SchedulerScan ==
    /\ trig.initial \/ trig.pending
    /\ EnterStep(Scheduler, "RunScan", RunScanParams("default"))
    /\ trig' = [trig EXCEPT !.initial = FALSE,
                            !.pending = IF trig.initial THEN @ ELSE FALSE]
    /\ TriggerFrame

\* ScanHandler.startScan: 409 when the status is running, else a goroutine
\* that calls RunManualScan(r.Context(), params)
RequestScan ==
    /\ trig.requests < MaxRequests
    /\ pc[Requester] = "idle"
    /\ trig' = [trig EXCEPT !.requests = @ + 1, !.cancelled = FALSE]
    /\ IF GetStatus.Status = "running"
       THEN UNCHANGED <<isScanning, scanStats, prevStatus, pc, loc, ret, runs>>
       ELSE \E params \in ManualParams :
               EnterStep(Requester, "RunManualScan", params)
    /\ TriggerFrame

\* a cancellation that stops the scan of the request: the subprocess is
\* killed and the wait returns its error
RequestDoneStopsScan ==
    /\ pc[Requester] = "wait" /\ ~trig.cancelled
    /\ trig' = [trig EXCEPT !.cancelled = TRUE]
    /\ proc' = proc \ {Requester}
    /\ updateScanError(Wrap("nmap command failed", ErrExit))
    /\ loc' = [loc EXCEPT ![Requester].err = ErrExit]
    /\ pc' = [pc EXCEPT ![Requester] = "errupdate"]
    /\ UNCHANGED <<mockModeForTesting, targetNetwork, isScanning, ret, runs,
                   locks, files, rt, built, snapshot, store, fkEnforced,
                   scanUpdates, now, call, dbLock, conn, work, thr, saved>>

\* startScan returns, and net/http cancels r.Context(), the context that was
\* passed to RunManualScan; neither RunManualScan nor exec.Command reads it
RequestDone ==
    /\ pc[Requester] = "wait" /\ ~trig.cancelled
    /\ trig' = [trig EXCEPT !.cancelled = TRUE]
    /\ EventFrame

NextTriggers ==
    \/ TickerFires
    \/ SchedulerScan
    \/ RequestScan
    \/ RequestDone
    \/ \E c \in Callers :
          \/ Resolve(c) \/ Create(c) \/ SetScanID(c) \/ Prepare(c) \/ Pipes(c)
          \/ Start(c) \/ Wait(c) \/ ReadResults(c) \/ IngestHost(c)
          \/ ErrorUpdate(c) \/ FinalUpdate(c) \/ SetCompleted(c) \/ Cleanup(c)

SpecTriggers == InitStore /\ [][NextTriggers]_vars

\* ------------------------------------------------------ start requests
\* ScanHandler.startScan up to its goroutine: 409 when GetStatus says
\* running, else the goroutine is started and 202 is answered
StartScanCheck(r) ==
    /\ trig.http[r] = "none"
    /\ trig' = [trig EXCEPT !.http[r] = IF GetStatus.Status = "running"
                                        THEN "409" ELSE "202"]
    /\ EventFrame

\* the goroutine of startScan calls RunManualScan, which runs the scan or
\* returns 'a scan is already in progress' to the goroutine, which logs it
StartScanRun(r) ==
    /\ trig.http[r] = "202"
    /\ \E params \in ManualParams : EnterStep(r, "RunManualScan", params)
    /\ trig' = [trig EXCEPT !.http[r] = IF isScanning THEN "lost" ELSE "ran"]
    /\ TriggerFrame

NextRequests ==
    \E c \in Callers :
       \/ StartScanCheck(c) \/ StartScanRun(c)
       \/ Resolve(c) \/ Create(c) \/ SetScanID(c) \/ Prepare(c) \/ Pipes(c)
       \/ Start(c) \/ Wait(c) \/ ReadResults(c) \/ IngestHost(c)
       \/ ErrorUpdate(c) \/ FinalUpdate(c) \/ SetCompleted(c) \/ Cleanup(c)

SpecRequests == InitStore /\ [][NextRequests]_vars

\* ------------------------------------- goroutines inside service methods
\* the name under which a goroutine holds db.Mutex or the connection
Holder(g) == NumThreads + g

\* the positions that are a call of s.scanLock.Lock()
LockPoints == {"enter", "setid", "setdone", "seterr", "deferred", "status",
               "stop"}

\* what the scanned network answers with while the locks are watched
LockHosts == {h \in ScanHosts : h.state = "up"}

LockPorts == {p \in ScanPorts : p.state = "open"}

\* an unlock that is missing after the scan id was stored
ScanUnlockButAtSetID(g) ==
    scanLock' = IF gor[g].pc = "setid" THEN scanLock ELSE 0

\* s.scanLock.Unlock()
ScanUnlock(g) == scanLock' = 0

\* a goroutine moves to the position p outside every critical section
Goto(g, p) == gor' = [gor EXCEPT ![g].pc = p, ![g].in = FALSE]

\* the method returns to its caller
ReturnTo(g) == gor' = [gor EXCEPT ![g] = [GorIdle EXCEPT !.left = gor[g].left]]

\* updateScanError(err) is called, and execution goes on at the position p
Fail(g, err, p) ==
    gor' = [gor EXCEPT ![g].pc = "seterr", ![g].in = FALSE, ![g].err = err,
                       ![g].after = p]

\* what the lock-level steps of the service leave alone
ServiceFrame ==
    UNCHANGED <<mockModeForTesting, targetNetwork, pc, loc, ret, proc, runs,
                fkEnforced, scanUpdates, now, call, work, thr, saved, files,
                helpers>>

\* a goroutine calls RunScan(ctx, name) or GetStatus()
ServiceCall(g) ==
    /\ gor[g].pc = "idle" /\ gor[g].left > 0
    /\ \E p \in {"enter", "status"}, name \in RequestedTemplates :
          /\ p = "status" => name = "thorough"
          /\ gor' = [gor EXCEPT ![g] = [GorIdle EXCEPT !.pc = p, !.name = name,
                                                      !.left = gor[g].left - 1]]
    /\ ServiceFrame
    /\ UNCHANGED <<isScanning, scanStats, prevStatus, store, dbLock, conn,
                   scanLock>>

\* s.scanLock.Lock()
LockScan(g) ==
    /\ gor[g].pc \in LockPoints /\ ~gor[g].in
    /\ Free(scanLock)
    /\ scanLock' = g
    /\ gor' = [gor EXCEPT ![g].in = TRUE]
    /\ ServiceFrame
    /\ UNCHANGED <<isScanning, scanStats, prevStatus, store, dbLock, conn>>

\* GetStatus, lines 312-315: the copy of the status record, and the unlock
CopyStats(g) ==
    /\ gor[g].pc = "status" /\ gor[g].in
    /\ GetStatus = scanStats
    /\ ReturnTo(g)
    /\ ScanUnlock(g)
    /\ ServiceFrame
    /\ UNCHANGED <<isScanning, scanStats, prevStatus, store, dbLock, conn>>

\* RunScan, lines 322-333: the single-flight check and the switch to running
CheckRunning(g) ==
    /\ gor[g].pc = "enter" /\ gor[g].in
    /\ IF isScanning
       THEN /\ ReturnTo(g)
            /\ UNCHANGED <<isScanning, scanStats, prevStatus>>
       ELSE /\ isScanning' = TRUE
            /\ SetStats([ScanID |-> 0, StartTime |-> now, EndTime |-> 0,
                         Status |-> "running", DevicesFound |-> 0,
                         PortsFound |-> 0, Error |-> NoErr])
            /\ Goto(g, "resolve")
    /\ ScanUnlock(g)
    /\ ServiceFrame
    /\ UNCHANGED <<store, dbLock, conn>>

\* RunScan, lines 344 and 390-408: the template and the command, no lock held
Template(g) ==
    /\ gor[g].pc = "resolve"
    /\ LET t == getScanTemplate(gor[g].name)
           r == prepareScanCommand(t.template, OutputPath(g), targetNetwork)
       IN  IF mockModeForTesting THEN Goto(g, "create")
           ELSE IF t.err # NoErr THEN Fail(g, t.err, "deferred")
           ELSE IF r.err # NoErr THEN Fail(g, r.err, "deferred")
           ELSE Goto(g, "create")
    /\ ServiceFrame
    /\ UNCHANGED <<isScanning, scanStats, prevStatus, store, dbLock, conn,
                   scanLock>>

\* s.db.CreateScan(templateName): one db.Exec, no lock of the service held
Record(g) ==
    /\ gor[g].pc = "create"
    /\ Free(conn)
    /\ \E ok \in BOOLEAN :
          IF ok
          THEN LET r == CreateScan(store, gor[g].name, now)
               IN  /\ store' = r.store
                   /\ gor' = [gor EXCEPT ![g].pc = "setid", ![g].id = r.id]
          ELSE /\ Fail(g, Wrap(RecordFailure("RunScan"),
                               Wrap("failed to create scan", ErrSql)),
                       "deferred")
               /\ UNCHANGED store
    /\ ServiceFrame
    /\ UNCHANGED <<isScanning, scanStats, prevStatus, dbLock, conn, scanLock>>

\* RunScan, lines 356-357 and 420-421: the scan id, and the unlock
StoreScanID(g) ==
    /\ gor[g].pc = "setid" /\ gor[g].in
    /\ SetStats([scanStats EXCEPT !.ScanID = gor[g].id])
    /\ ScanUnlock(g)
    /\ IF mockModeForTesting
       THEN gor' = [gor EXCEPT ![g].pc = "finalupdate", ![g].in = FALSE,
                               ![g].deviceCount = 5, ![g].portCount = 15]
       ELSE Goto(g, "pipes")
    /\ ServiceFrame
    /\ UNCHANGED <<isScanning, store, dbLock, conn>>

\* nmapCmd.StdoutPipe() and nmapCmd.StderrPipe()
OpenPipes(g) ==
    /\ gor[g].pc = "pipes"
    /\ \E ok \in BOOLEAN :
          IF ok THEN Goto(g, "start") ELSE Fail(g, ErrPipe, "deferred")
    /\ ServiceFrame
    /\ UNCHANGED <<isScanning, scanStats, prevStatus, store, dbLock, conn,
                   scanLock>>

\* nmapCmd.Start()
Launch(g) ==
    /\ gor[g].pc = "start"
    /\ \E ok \in BOOLEAN :
          IF ok THEN Goto(g, "wait")
          ELSE Fail(g, Wrap("failed to start nmap", ErrExec), "errupdate")
    /\ ServiceFrame
    /\ UNCHANGED <<isScanning, scanStats, prevStatus, store, dbLock, conn,
                   scanLock>>

\* nmapCmd.Wait() returns
Await(g) ==
    /\ gor[g].pc = "wait"
    /\ \E exit \in {0, 1} :
          IF exit = 0 THEN Goto(g, "process")
          ELSE Fail(g, Wrap("nmap command failed", ErrExit), "errupdate")
    /\ ServiceFrame
    /\ UNCHANGED <<isScanning, scanStats, prevStatus, store, dbLock, conn,
                   scanLock>>

\* processScanResults: reading and parsing the output file
Parse(g) ==
    /\ gor[g].pc = "process"
    /\ \E err \in {NoErr, ErrRead, ErrXml} :
          IF err = NoErr THEN Goto(g, "hosts")
          ELSE Fail(g, Wrap("failed to process scan results", err), "errupdate")
    /\ ServiceFrame
    /\ UNCHANGED <<isScanning, scanStats, prevStatus, store, dbLock, conn,
                   scanLock>>

\* processScanResults: the loops reach the next record to save, or their end
NextRecord(g) ==
    /\ \/ /\ gor[g].pc = "hosts"
          /\ \/ Goto(g, "finalupdate")
             \/ gor[g].deviceCount < MaxHosts /\ Goto(g, "savedevice")
       \/ /\ gor[g].pc = "ports"
          /\ \/ Goto(g, "hosts")
             \/ gor[g].portCount < MaxPorts /\ Goto(g, "saveport")
    /\ ServiceFrame
    /\ UNCHANGED <<isScanning, scanStats, prevStatus, store, dbLock, conn,
                   scanLock>>

\* SaveDevice and SavePort: db.Lock()
LockStore(g) ==
    /\ gor[g].pc \in {"savedevice", "saveport"} /\ ~gor[g].in
    /\ Free(dbLock)
    /\ dbLock' = Holder(g)
    /\ gor' = [gor EXCEPT ![g].in = TRUE]
    /\ ServiceFrame
    /\ UNCHANGED <<isScanning, scanStats, prevStatus, store, conn, scanLock>>

\* SaveDevice and SavePort: the transaction, from db.Begin() to its end
SaveTx(g) ==
    /\ gor[g].pc \in {"savedevice", "saveport"} /\ gor[g].in
    /\ dbLock = Holder(g)
    /\ Free(conn)
    /\ \E host \in LockHosts, port \in LockPorts, fault \in StoreFaults :
          LET d == SaveDevice(store, DeviceOf(host, now), now, fkEnforced, fault)
              q == SavePort(store, PortOf(port, gor[g].deviceID,
                                          Atoi(port.portid).value, now),
                            now, fkEnforced, fault)
          IN  IF gor[g].pc = "savedevice"
              THEN /\ store' = d.store
                   /\ gor' = [gor EXCEPT
                                ![g].pc = "unlockdevice",
                                ![g].err = d.err, ![g].deviceID = d.id]
              ELSE /\ store' = q.store
                   /\ gor' = [gor EXCEPT ![g].pc = "unlockport",
                                         ![g].err = q.err]
    /\ ServiceFrame
    /\ UNCHANGED <<isScanning, scanStats, prevStatus, dbLock, conn, scanLock>>

\* SaveDevice and SavePort: the deferred db.Unlock(), and what the loop does
\* with the result
UnlockStore(g) ==
    /\ gor[g].pc \in {"unlockdevice", "unlockport"}
    /\ dbLock = Holder(g)
    /\ dbLock' = 0
    /\ gor' = [gor EXCEPT
                 ![g].in = FALSE, ![g].err = NoErr,
                 ![g].pc = IF gor[g].pc = "unlockport" \/ gor[g].err = NoErr
                           THEN "ports" ELSE "hosts",
                 ![g].deviceCount =
                     IF gor[g].pc = "unlockdevice" /\ gor[g].err = NoErr
                     THEN @ + 1 ELSE @,
                 ![g].portCount =
                     IF gor[g].pc = "unlockport" /\ gor[g].err = NoErr
                     THEN @ + 1 ELSE @]
    /\ ServiceFrame
    /\ UNCHANGED <<isScanning, scanStats, prevStatus, store, conn, scanLock>>

\* s.updateScanInDB(dbScanID, status, ...): one db.Exec, no lock of the
\* service held; its failure is at most logged
MarkRow(g) ==
    /\ gor[g].pc \in {"errupdate", "finalupdate"}
    /\ Free(conn)
    /\ \E ok \in BOOLEAN :
          store' = IF ok
                   THEN updateScanInDB(store, gor[g].id,
                                       IF gor[g].pc = "errupdate" THEN "error"
                                       ELSE "completed",
                                       gor[g].deviceCount, gor[g].portCount,
                                       now - scanStats.StartTime)
                   ELSE store
    /\ Goto(g, IF gor[g].pc = "errupdate" THEN "deferred" ELSE "setdone")
    /\ ServiceFrame
    /\ UNCHANGED <<isScanning, scanStats, prevStatus, dbLock, conn, scanLock>>

\* RunScan, lines 375-378 and 485-488: the final status, and the unlock
MarkCompleted(g) ==
    /\ gor[g].pc = "setdone" /\ gor[g].in
    /\ SetStats([scanStats EXCEPT !.Status = "completed",
                                  !.DevicesFound = gor[g].deviceCount,
                                  !.PortsFound = gor[g].portCount])
    /\ ScanUnlock(g)
    /\ Goto(g, "deferred")
    /\ ServiceFrame
    /\ UNCHANGED <<isScanning, store, dbLock, conn>>

\* updateScanError, lines 1005-1010, and the return to its caller
MarkError(g) ==
    /\ gor[g].pc = "seterr" /\ gor[g].in
    /\ updateScanError(gor[g].err)
    /\ ScanUnlock(g)
    /\ Goto(g, gor[g].after)
    /\ ServiceFrame
    /\ UNCHANGED <<isScanning, store, dbLock, conn>>

\* RunScan, lines 337-340: the deferred function, and the return
Deferred(g) ==
    /\ gor[g].pc = "deferred" /\ gor[g].in
    /\ isScanning' = FALSE
    /\ SetStats([scanStats EXCEPT !.EndTime = now])
    /\ ScanUnlock(g)
    /\ ReturnTo(g)
    /\ ServiceFrame
    /\ UNCHANGED <<store, dbLock, conn>>

\* another part of the program writes to the store
Write(t) ==
    \/ \E d \in RetentionChoices : Enter(t, "CleanOldData", <<d>>)
    \/ Enter(t, "UpdateScan", <<1, "completed">>)

NextLocks ==
    \/ \E g \in Callers :
          \/ ServiceCall(g) \/ LockScan(g) \/ CopyStats(g) \/ CheckRunning(g)
          \/ Template(g) \/ Record(g) \/ StoreScanID(g) \/ OpenPipes(g)
          \/ Launch(g) \/ Await(g) \/ Parse(g) \/ NextRecord(g)
          \/ LockStore(g) \/ SaveTx(g) \/ UnlockStore(g) \/ MarkRow(g)
          \/ MarkCompleted(g) \/ MarkError(g) \/ Deferred(g)
    \/ \E t \in Writers :
          \/ Write(t) \/ Lock(t) \/ Begin(t) \/ Body(t) \/ Commit(t)
          \/ Unlock(t) \/ ExecStart(t) \/ ExecDone(t)

InitLocks == Init /\ targetNetwork = ConfigNet

\* ScanService.Stop, lines 254-261: the ticker is stopped and stopChan is
\* closed, then Stop asks for scanLock; name keeps the status at the call
StopCall(g) ==
    /\ gor[g].pc = "idle" /\ gor[g].left > 0
    /\ gor' = [gor EXCEPT ![g] = [GorIdle EXCEPT !.pc = "stop",
                                                !.name = scanStats.Status,
                                                !.left = gor[g].left - 1]]
    /\ ServiceFrame
    /\ UNCHANGED <<isScanning, scanStats, prevStatus, store, dbLock, conn,
                   scanLock>>

\* ScanService.Stop, lines 264-267: with scanLock held, the deferred Unlock
\* runs and Stop returns nil
StopReturn(g) ==
    /\ gor[g].pc = "stop" /\ gor[g].in
    /\ ReturnTo(g)
    /\ ScanUnlock(g)
    /\ ServiceFrame
    /\ UNCHANGED <<isScanning, scanStats, prevStatus, store, dbLock, conn>>

NextStop ==
    \E g \in Callers :
       \/ StopCall(g) \/ StopReturn(g)
       \/ ServiceCall(g) \/ LockScan(g) \/ CopyStats(g) \/ CheckRunning(g)
       \/ Template(g) \/ Record(g) \/ StoreScanID(g) \/ OpenPipes(g)
       \/ Launch(g) \/ Await(g) \/ Parse(g) \/ NextRecord(g)
       \/ LockStore(g) \/ SaveTx(g) \/ UnlockStore(g) \/ MarkRow(g)
       \/ MarkCompleted(g) \/ MarkError(g) \/ Deferred(g)

SpecStop == InitLocks /\ [][NextStop]_vars

SpecLocks == InitLocks /\ [][NextLocks]_vars

\* a goroutine inside a critical section of scanLock runs on to its unlock:
\* no step there waits for anything
Critical(g) ==
    \/ CopyStats(g) \/ CheckRunning(g) \/ StoreScanID(g) \/ MarkCompleted(g)
    \/ MarkError(g) \/ Deferred(g)

\* sync.Mutex hands a free lock to a goroutine that waits for it, and the Go
\* scheduler runs every runnable goroutine; nothing is assumed about the
\* subprocess, the store or the threads that write to it
FairLocks == \A g \in Callers : WF_locks(LockScan(g)) /\ WF_locks(Critical(g))

SpecLocksFair == SpecLocks /\ FairLocks

\* ------------------------------------------------------- scan orchestration
\* the callers between their single-flight check and their deferred cleanup
InFlight == {c \in Callers : pc[c] # "idle"}

\* the step is the return of a call of caller c to its caller
Returns(c) == pc[c] = "cleanup" /\ pc'[c] = "idle"

\* the step is a RunScan or RunManualScan call of caller c
Calls(c) == RunScanEnter(c) \/ RunManualScanEnter(c)

\* C1: at most one call is between its single-flight check and its deferred
\* cleanup, and a call made while a scan is in progress returns the "already
\* in progress" error with id 0, adds no Scan row and starts no subprocess.
C1_SingleFlight ==
    [][/\ Cardinality(InFlight') <= 1
       /\ \A c \in Callers :
             (isScanning /\ Calls(c)) =>
                /\ ret' = [id |-> 0, err |-> ErrAlreadyRunning, kind |-> "rejected"]
                /\ store'.scans = store.scans
                /\ proc' = proc
                /\ pc'[c] = "idle"
                /\ runs' = runs]_vars

\* a call was turned away while the subprocess of the first accepted run ran
C1_Witness ==
    /\ runs = 1
    /\ ret.kind = "rejected"
    /\ \E c \in Callers : pc[c] = "wait" /\ proc = {c}

\* C2: when a call that passed the single-flight check returns, isScanning
\* is cleared and EndTime is set, whatever path it took, and no call is in
\* flight, so that the next call takes the accepting branch.
C2_GuaranteedCleanup ==
    [][\A c \in Callers :
          Returns(c) =>
             /\ ~isScanning'
             /\ scanStats'.EndTime = now /\ scanStats'.EndTime # 0
             /\ InFlight' = {}]_vars

\* a run that failed has returned and the call after it was accepted
C2_Witness ==
    /\ runs = 2
    /\ ret.kind = "ran" /\ ret.err # NoErr
    /\ scanStats.Status = "running"
    /\ \E c \in Callers : pc[c] = "entered"

\* C3: a Scan row is created running, is updated exactly once, to completed
\* or error, before the call that created it returns, and never again.
C3_RowLifecycle ==
    \A r \in store.scans :
        LET owned == \E c \in Callers :
                        pc[c] \notin {"idle", "cleanup"} /\ loc[c].dbScanID = r.id
        IN  /\ scanUpdates[r.id] <= 1
            /\ scanUpdates[r.id] = 0 => r.status = "running"
            /\ scanUpdates[r.id] = 1 => r.status \in {"completed", "error"}
            /\ ~owned => scanUpdates[r.id] = 1

\* C4: when the subprocess fails to start or exits non-zero, the call returns
\* the scan's id with the error, the in-memory status is error and the Scan
\* row is error with both counts 0; every error row has both counts 0.
C4_FailurePath ==
    /\ \A c \in Callers :
          (pc[c] = "cleanup" /\ loc[c].ret.err \in {ErrExec, ErrExit}) =>
             /\ loc[c].ret.id = loc[c].dbScanID
             /\ scanStats.Status = "error"
             /\ \A r \in ScanRows(store, loc[c].dbScanID) :
                   r.status = "error" /\ r.devices_found = 0 /\ r.ports_found = 0
    /\ \A r \in store.scans :
          r.status = "error" => r.devices_found = 0 /\ r.ports_found = 0

\* C5: a Scan row that ended in error carries the text of the failure in
\* error_message, so that GetScan shows a non-empty ErrorMessage.
C5_ErrorTextStored ==
    \A r \in store.scans :
        r.status = "error" => GetScan(store, r.id).ErrorMessage # ""

\* C6: when a call returns without error, its Scan row is completed with the
\* counts of the merge, and GetStatus reports completed with the same id and
\* the same counts.
C6_SuccessPath ==
    \A c \in Callers :
        (pc[c] = "cleanup" /\ loc[c].ret.kind = "ran" /\ loc[c].ret.err = NoErr) =>
           /\ GetStatus.Status = "completed"
           /\ GetStatus.ScanID = loc[c].ret.id
           /\ GetStatus.DevicesFound = loc[c].deviceCount
           /\ GetStatus.PortsFound = loc[c].portCount
           /\ \A r \in ScanRows(store, loc[c].ret.id) :
                 /\ r.status = "completed"
                 /\ r.devices_found = loc[c].deviceCount
                 /\ r.ports_found = loc[c].portCount

\* the step changes the in-memory status from one value to another
StatusChange == <<scanStats.Status, scanStats'.Status>>

\* C7 as stated: the status only moves idle -> running, running -> completed,
\* running -> error, completed -> idle, error -> idle.
C7_ClaimedTransitions ==
    [][scanStats'.Status # scanStats.Status =>
          StatusChange \in {<<"idle", "running">>, <<"running", "completed">>,
                            <<"running", "error">>, <<"completed", "idle">>,
                            <<"error", "idle">>}]_vars

\* C7 amended: the status only moves idle -> running, running -> completed,
\* running -> error, completed -> running, error -> running; idle is the
\* status before the first accepted call only.
C7_Transitions ==
    [][/\ scanStats'.Status # scanStats.Status =>
             StatusChange \in {<<"idle", "running">>, <<"running", "completed">>,
                               <<"running", "error">>, <<"completed", "running">>,
                               <<"error", "running">>}
       /\ runs' > 0 => scanStats'.Status # "idle"]_vars

\* a second run started straight from the final status of the first, which
\* has returned
C7_Witness ==
    /\ prevStatus \in {"completed", "error"}
    /\ scanStats.Status = "running"
    /\ ret.kind = "ran"
    /\ runs = 2

\* the command line a run with the built-in default template must build
DefaultCommand(l) ==
    <<Nmap, ArgOX, OutputPath(l.run), ArgSS, ArgSV, ArgO, ArgOsscanLimit>>
    \o (IF l.params.ScanAllPorts THEN <<ArgAllPorts>> ELSE <<>>)
    \o (IF l.params.DisablePing THEN <<ArgPn>> ELSE <<>>)
    \o <<ArgMaxRate,
         IF l.params.RateLimit > 0 THEN Itoa(l.params.RateLimit)
         ELSE <<"1", "0", "0", "0">>,
         IF l.params.TargetNetwork # NoNetwork THEN l.params.TargetNetwork
         ELSE targetNetwork>>

\* C8: a call with a template name that is not built in gets no error from
\* the template lookup and goes on with the arguments and the rate limit of
\* the default template.
C8_UnknownTemplate ==
    \A c \in Callers :
        (pc[c] # "idle" /\ loc[c].params.Template \notin DOMAIN getTemplates) =>
           /\ getScanTemplate(loc[c].params.Template).err = NoErr
           /\ pc[c] \in {"pipes", "start", "wait", "process"} /\ ~mockModeForTesting =>
                 /\ loc[c].template.NmapArgs = <<ArgSS, ArgSV, ArgO, ArgOsscanLimit>>
                 /\ loc[c].template.RateLimit =
                       IF loc[c].params.RateLimit > 0 THEN loc[c].params.RateLimit
                       ELSE 1000
                 /\ loc[c].cmd = DefaultCommand(loc[c])

\* the subprocess of a manual scan that asked for the template "weekly" runs
C8_Witness ==
    \E c \in Callers :
        /\ pc[c] = "wait" /\ c \in proc
        /\ loc[c].op = "RunManualScan"
        /\ loc[c].params.Template = "weekly"

\* C9: a call that passed the single-flight check and found no target
\* network, in the configuration or in its parameters, returns with a Scan
\* row of its own whose status is error.
C9_MissingTarget ==
    \A c \in Callers :
        (pc[c] = "cleanup" /\ loc[c].ret.err \in {ErrNoTargetConfig, ErrNoTarget}) =>
           \E r \in ScanRows(store, loc[c].ret.id) : r.status = "error"

Repeats(op) == call'.op = op /\ call'.repeat

\* the device rows stored under the key of an observed device
DeviceRowsOf(st, device) ==
    {r \in st.devices : r.ip_address = device.IPAddress
                        /\ r.mac_address = device.MACAddress}

\* the port rows stored under the key of an observed port
PortRowsOf(st, port) ==
    {r \in st.ports : r.device_id = port.DeviceID
                      /\ r.port_number = port.PortNumber
                      /\ r.protocol = port.Protocol}

\* C11: saving the same device (port) observation a second time within the
\* hour leaves exactly one row under its key and no row more than before,
\* returns the id the first call returned, and appends no change record.
C11_IdempotentReobservation ==
    [][/\ Repeats("SaveDevice") =>
            /\ Cardinality(DeviceRowsOf(store', call'.arg)) = 1
            /\ Cardinality(store'.devices) = Cardinality(store.devices)
            /\ call'.id = call.id
            /\ \A r \in DeviceRowsOf(store', call'.arg) : r.id = call'.id
            /\ store'.changes = store.changes
       /\ Repeats("SavePort") =>
            /\ Cardinality(PortRowsOf(store', call'.arg)) = 1
            /\ Cardinality(store'.ports) = Cardinality(store.ports)
            /\ store'.changes = store.changes]_vars

\* a device was saved twice within the hour, the first time with a changed
\* hostname that was recorded
C11_Witness ==
    /\ call.op = "SaveDevice" /\ call.repeat
    /\ \E ch \in store.changes :
          ch.change_type = "device_change" /\ ch.device_id = call.id

\* the step ends in a successful SaveDevice call that found no row under the
\* key of its device
InsertsDevice ==
    /\ call'.op = "SaveDevice" /\ call'.err = NoErr
    /\ DeviceRowsOf(store, call'.arg) = {}

\* C13: a SaveDevice call for a key without a row creates exactly one device
\* row, returns its positive id, and appends exactly one change record: a
\* new_device record of that device whose scan_id names the latest scan row.
C13_NewHostDiscovery ==
    [][InsertsDevice =>
          /\ call'.id > 0
          /\ store'.devices \ store.devices = DeviceRowsOf(store', call'.arg)
          /\ Cardinality(DeviceRowsOf(store', call'.arg)) = 1
          /\ store.devices \subseteq store'.devices
          /\ \E ch \in store'.changes \ store.changes :
                /\ store'.changes \ store.changes = {ch}
                /\ ch.change_type = "new_device"
                /\ ch.device_id = call'.id
                /\ ScanRows(store', ch.scan_id) # {}
                /\ ch.scan_id = LatestScanID(store')]_vars

\* the step is a call of a client on the store: the clock and the pooled
\* connection are the environment's
ClientStep == now' = now /\ fkEnforced' = fkEnforced

\* the transitions "<field> changed: <old> -> <new>" of the fields whose
\* incoming value is non-empty and differs from the stored one
ChangedFields(device, row) ==
    {<<"MAC address", row.mac_address, device.MACAddress>> : x \in
        {1 : y \in {device.MACAddress} \ {"", row.mac_address}}}
    \cup {<<"Hostname", row.hostname, device.Hostname>> : x \in
        {1 : y \in {device.Hostname} \ {"", row.hostname}}}
    \cup {<<"OS", row.os_fingerprint, device.OSFingerprint>> : x \in
        {1 : y \in {device.OSFingerprint} \ {"", row.os_fingerprint}}}

\* the step is a successful SaveDevice call that found a row whose fields the
\* incoming device changes
ChangesDevice ==
    /\ ClientStep /\ call'.op = "SaveDevice" /\ call'.err = NoErr
    /\ \E row \in DeviceRowsOf(store, call'.arg) :
          ChangedFields(call'.arg, row) # {}

\* C14: a SaveDevice call that changes fields of an existing device appends
\* exactly one change record, a device_change of that device, whose details
\* name exactly the changed fields with their old and new values.
C14_ChangeDetection ==
    [][ChangesDevice =>
          \E ch \in store'.changes \ store.changes :
             /\ store'.changes \ store.changes = {ch}
             /\ ch.change_type = "device_change"
             /\ ch.device_id = call'.id
             /\ \A row \in DeviceRowsOf(store, call'.arg) :
                   /\ {ch.details[i] : i \in DOMAIN ch.details}
                         = ChangedFields(call'.arg, row)
                   /\ Len(ch.details) = Cardinality(ChangedFields(call'.arg, row))]_vars

\* the step is a successful call of op on a row that existed
UpdatesRow(op, rows) ==
    /\ ClientStep /\ call'.op = op /\ call'.err = NoErr
    /\ rows # {}

\* the entries of the device_change records the step appended
AppendedDetails ==
    UNION {{ch.details[i] : i \in DOMAIN ch.details} :
              ch \in store'.changes \ store.changes}

\* C15: when SaveDevice or SavePort meets an existing row, every field whose
\* incoming value is empty keeps its stored value, and the change record of
\* the call, if any, shows no transition of that field.
C15_EmptyKeepsStored ==
    [][/\ UpdatesRow("SaveDevice", DeviceRowsOf(store, call'.arg)) =>
            \A old \in DeviceRowsOf(store, call'.arg) :
               \E new \in store'.devices :
                  /\ new.id = old.id
                  /\ call'.arg.MACAddress = "" =>
                        /\ new.mac_address = old.mac_address
                        /\ \A d \in AppendedDetails : d[1] # "MAC address"
                  /\ call'.arg.Hostname = "" =>
                        /\ new.hostname = old.hostname
                        /\ \A d \in AppendedDetails : d[1] # "Hostname"
                  /\ call'.arg.OSFingerprint = "" =>
                        /\ new.os_fingerprint = old.os_fingerprint
                        /\ \A d \in AppendedDetails : d[1] # "OS"
       /\ UpdatesRow("SavePort", PortRowsOf(store, call'.arg)) =>
            \A old \in PortRowsOf(store, call'.arg) :
               \E new \in store'.ports :
                  /\ new.id = old.id
                  /\ call'.arg.ServiceName = "" =>
                        /\ new.service_name = old.service_name
                        /\ \A ch \in store'.changes \ store.changes :
                              ch.details[6] = ch.details[4]
                  /\ call'.arg.ServiceVersion = "" =>
                        /\ new.service_version = old.service_version
                        /\ \A ch \in store'.changes \ store.changes :
                              ch.details[7] = ch.details[5]]_vars

\* a device whose OS was known was saved again with a new hostname and no OS,
\* and the change was recorded
C15_Witness ==
    /\ call.op = "SaveDevice" /\ call.err = NoErr
    /\ call.arg.OSFingerprint = "" /\ call.arg.Hostname # ""
    /\ \E r \in DeviceRowsOf(store, call.arg) :
          /\ r.os_fingerprint # "" /\ r.hostname = call.arg.Hostname
          /\ \E ch \in store.changes :
                ch.change_type = "device_change" /\ ch.device_id = r.id

\* the step is a call of one of the transactional store operations
Transacts ==
    ClientStep /\ call'.op \in {"SaveDevice", "SavePort", "CleanOldData"}

\* C16: a SaveDevice, SavePort or CleanOldData call that returns an error
\* leaves the store unchanged, and a call that returns none has committed
\* every row it wrote: no device or port row is inserted without the
\* new_device or new_port change record of the same call.
C16_AllOrNothing ==
    [][Transacts =>
          /\ call'.err # NoErr => store' = store
          /\ \A d \in store'.devices :
                (\A x \in store.devices : x.id # d.id) =>
                   \E ch \in store'.changes \ store.changes :
                      ch.change_type = "new_device" /\ ch.device_id = d.id
          /\ \A p \in store'.ports :
                (\A x \in store.ports : x.id # p.id) =>
                   \E ch \in store'.changes \ store.changes :
                      ch.change_type = "new_port" /\ ch.device_id = p.device_id]_vars

\* ------------------------------------------------------------- retention
\* the step is a successful CleanOldData call
Cleans == ClientStep /\ call'.op = "CleanOldData" /\ call'.err = NoErr

\* cutoffTime of the CleanOldData call the step made
CutoffOf(days) == now - days * Day

\* C17: a successful CleanOldData(d) removes exactly the device rows whose
\* last_seen is older than now minus d days, every port row of a removed
\* device and no port row of a kept one, and exactly the scan rows whose
\* timestamp is older than that cutoff.
C17_RetentionCorrectness ==
    [][Cleans =>
          LET cutoff == CutoffOf(call'.arg[1])
              removed == {d \in store.devices : d.last_seen < cutoff}
          IN  /\ store'.devices = store.devices \ removed
              /\ store'.scans = {r \in store.scans : r.timestamp >= cutoff}
              /\ \A p \in store.ports :
                    /\ (\E d \in removed : d.id = p.device_id) =>
                          p \notin store'.ports
                    /\ (\E d \in store'.devices : d.id = p.device_id) =>
                          p \in store'.ports]_vars

\* C18: the count a successful CleanOldData returns is the number of change,
\* scan, device and log rows the call removed from the store, and a failed
\* call returns 0.
C18_CountIsRowsRemoved ==
    [][(ClientStep /\ call'.op = "CleanOldData") =>
          IF call'.err = NoErr
          THEN call'.count = Cardinality(store.changes \ store'.changes)
                             + Cardinality(store.scans \ store'.scans)
                             + Cardinality(store.devices \ store'.devices)
                             + Cardinality(store.logs \ store'.logs)
          ELSE call'.count = 0]_vars

\* ------------------------------------------------------ concurrent callers
\* the error of a transaction whose commit the environment failed
CommitFailed == Wrap("failed to commit transaction", ErrSql)

\* the SaveDevice calls that have come to their end
EndedSaves == {t \in Threads : thr[t].op = "SaveDevice"
                               /\ thr[t].pc \in {"rollback", "unlock", "idle"}}

\* C12: whatever the interleaving of the threads, every SaveDevice call whose
\* commit the environment lets through succeeds, and the device rows are one
\* per key among the committed calls: none is lost and none is duplicated.
C12_AtMostOneWriter ==
    /\ \A t \in EndedSaves : thr[t].err \in {NoErr, CommitFailed}
    /\ Cardinality(store.devices) = Cardinality(saved)
    /\ \A k \in saved :
          Cardinality({r \in store.devices :
                          <<r.ip_address, r.mac_address>> = k}) = 1

\* two keys are stored, one thread has just committed a device and still
\* holds the lock, and the other waits for the lock with a device of that key
C12_Witness ==
    /\ thr[1].op = "SaveDevice" /\ thr[1].pc = "unlock" /\ thr[1].err = NoErr
    /\ thr[2].op = "SaveDevice" /\ thr[2].pc = "lock"
    /\ KeyOf(thr[2].arg) = KeyOf(thr[1].arg)
    /\ Cardinality(saved) = 2 /\ Cardinality(store.devices) = 2

\* the threads with a write in flight: inside a transaction, from db.Begin to
\* the end of Commit or Rollback, or inside the db.Exec of a single statement
Writing == {t \in Threads : thr[t].pc \in {"body", "commit", "rollback",
                                           "executing"}}

\* C19 as claimed: every thread with a write in flight, CreateScan, UpdateScan
\* and AddLogEntry included, holds the store-wide lock.
C19_EveryWriterLocks == \A t \in Writing : dbLock = t

\* C19: SaveDevice, SavePort and CleanOldData hold the store-wide lock from
\* before their transaction begins until after it has ended; CreateScan,
\* UpdateScan and AddLogEntry write without the lock; every write in flight
\* holds the only connection, so no two writes are in flight at once.
C19_OneWriter ==
    /\ \A t \in Threads :
          (thr[t].op \in TxOps
           /\ thr[t].pc \in {"begin", "body", "commit", "rollback", "unlock"})
             => dbLock = t
    /\ \A t \in Writing : conn = t
    /\ Cardinality(Writing) <= 1

\* a thread holds the lock and waits for the connection while another thread
\* writes a scan row without the lock
C19_Witness ==
    /\ thr[1].op = "SaveDevice" /\ thr[1].pc = "begin" /\ dbLock = 1
    /\ thr[2].op = "CreateScan" /\ thr[2].pc = "executing" /\ conn = 2

\* C20: a read that interleaves with SaveDevice, SavePort or CleanOldData
\* returns the committed device rows: never a row change of a transaction
\* that is still open, whether that transaction commits later or not.
C20_ReadCommitted ==
    [][\A t \in Threads :
          (thr[t].op \in QueryOps /\ thr[t].pc = "query" /\ thr'[t].pc = "idle")
             => /\ thr'[t].res = store.devices
                /\ ~work.open]_vars

\* a thread read the devices a committed transaction had stored, after
\* another transaction's commit had failed and its rows were discarded
C20_Witness ==
    /\ thr[1].op = "GetAllDevices" /\ thr[1].pc = "idle"
    /\ thr[1].res # {} /\ thr[1].res = store.devices
    /\ thr[2].op = "SaveDevice" /\ thr[2].err = CommitFailed
    /\ KeyOf(thr[2].arg) \notin saved

\* ----------------------------------------------------------------- locks
\* the positions of RunScan between the start of the subprocess and the end
\* of the merge, outside the store methods it calls
LongRunning == {"wait", "process", "hosts", "ports"}

\* the positions of RunScan inside a store method
InStore == {"create", "savedevice", "saveport", "unlockdevice", "unlockport",
            "errupdate", "finalupdate"}

\* the locks a goroutine holds
HoldsScanLock(g) == scanLock = g
HoldsStoreLock(g) == dbLock = Holder(g)

LocksApart ==
    \A g \in Callers :
       /\ gor[g].pc \in LongRunning => ~HoldsScanLock(g) /\ ~HoldsStoreLock(g)
       /\ gor[g].pc \in InStore => ~HoldsScanLock(g)
       /\ ~(HoldsScanLock(g) /\ HoldsStoreLock(g))

\* C21: while a scan waits for the subprocess or merges results it holds
\* neither scanLock nor the store lock, scanLock is never held while a store
\* method runs, no goroutine ever holds both locks, and every GetStatus call
\* returns, whatever the subprocess, the store and its writers do.
C21_NoLockAcrossScan ==
    /\ []LocksApart
    /\ \A g \in Callers : (gor[g].pc = "status") ~> (gor[g].pc = "idle")

\* GetStatus copies the status while a scan waits for its subprocess and a
\* thread writes to the store under the store lock
C21_Witness ==
    \E g, h \in Callers :
       /\ gor[g].pc = "wait"
       /\ gor[h].pc = "status" /\ gor[h].in
       /\ \E t \in Writers : dbLock = t /\ thr[t].pc = "commit"

\* ---------------------------------------------------------------- backup
\* the threads between the db.Lock() and the db.Unlock() of BackupDatabase
BackingUp == {t \in Threads : thr[t].pc \in {"checkpoint", "vacuum", "copy",
                                             "backupunlock"}}

\* the threads inside the transaction of SaveDevice, SavePort or CleanOldData
InTransaction == {t \in Threads : thr[t].pc \in {"begin", "body", "commit",
                                                 "rollback", "unlock"}}

\* C22: when BackupDatabase is about to return a path without an error, the
\* file at the path holds the device rows of the store, and while a backup
\* runs no SaveDevice, SavePort or CleanOldData is inside its transaction.
C22_BackupFidelity ==
    /\ \A t \in Threads :
          thr[t].pc = "backupunlock" /\ thr[t].err = NoErr =>
             /\ thr[t].id \in DOMAIN backups
             /\ DevicesOfBackup(thr[t].id) = store.devices
    /\ BackingUp # {} => InTransaction = {}

\* ----------------------------------------------------------------- retry
\* the invocations of the operation that failed with a busy or locked error
RetryableResults == {i \in DOMAIN rt.results : Retryable(rt.results[i])}

\* errors.Unwrap of the error ExecuteWithRetry returns
Unwrapped(err) == SubSeq(err, Len(err) - Len(rt.err) + 1, Len(err))

\* C23: the operation is invoked at most maxRetries times; nil is returned
\* exactly when an invocation succeeded, and that invocation is the last; an
\* invocation is followed by another only if it failed with a busy or locked
\* error; after maxRetries such failures the returned error wraps the last.
C23_RetryContract ==
    /\ Len(rt.results) <= rt.maxRetries
    /\ \A i \in DOMAIN rt.results : i < Len(rt.results) => i \in RetryableResults
    /\ rt.pc = "done" =>
          /\ rt.ret = NoErr <=> \E i \in DOMAIN rt.results : rt.results[i] = NoErr
          /\ Cardinality(RetryableResults) = rt.maxRetries /\ rt.maxRetries > 0 =>
                /\ rt.ret # NoErr
                /\ Unwrapped(rt.ret) = rt.results[rt.maxRetries]

\* maxRetries busy or locked failures in a row, and the error returned
C23_Witness ==
    /\ rt.pc = "done" /\ rt.maxRetries = 3
    /\ Cardinality(RetryableResults) = 3
    /\ rt.results[3] = ErrServerBusy /\ rt.results[1] = ErrLocked

\* a fixed maximum for the wait: any value stands for it, since the source
\* names none
MaxWait == 4

\* C24: the wait before each retry is twice the previous wait, or the fixed
\* maximum once twice the previous wait would exceed it, and no wait exceeds
\* the fixed maximum.
C24_CappedBackoff ==
    \A k \in DOMAIN rt.waits :
       /\ rt.waits[k] <= MaxWait
       /\ k > 1 => rt.waits[k] \in {2 * rt.waits[k - 1], MaxWait}

\* -------------------------------------------------------------- commands
\* how often an argument occurs in an invocation
Count(args, arg) == Cardinality({i \in DOMAIN args : args[i] = arg})

\* the positions of a template's port-range arguments: -p with its value
\* attached, and -p followed by its value
PortRangeAt(args) ==
    {i \in DOMAIN args :
        \/ HasPrefixDashP(args[i])
        \/ i > 1 /\ args[i - 1] = ArgP}

RECURSIVE Except(_, _, _)
\* the arguments, in order, whose positions from i on are not in the set
Except(args, drop, i) ==
    IF i > Len(args) THEN <<>>
    ELSE (IF i \in drop THEN <<>> ELSE <<args[i]>>) \o Except(args, drop, i + 1)

\* the arguments a manual invocation carries between the output path and the
\* flags the overrides append
KeptArgs ==
    LET tail == 3 + (IF built.params.DisablePing
                        /\ Count(built.template.NmapArgs, ArgPn) = 0
                     THEN 1 ELSE 0)
                 + (IF built.params.ScanAllPorts THEN 1 ELSE 0)
    IN  SubSeq(built.cmd, 4, Len(built.cmd) - tail)

RateOf(b) == IF b.params.RateLimit > 0 THEN b.params.RateLimit
             ELSE b.template.RateLimit

TargetOf(b) == IF b.params.TargetNetwork # NoNetwork THEN b.params.TargetNetwork
               ELSE targetNetwork

\* C26: an invocation starts with -oX and the output path of its run, holds
\* --max-rate once, followed by the override when that is above 0 and by the
\* template's rate otherwise, and ends with the one target it holds, the
\* override when given and the configured network otherwise; the path is the
\* one read afterwards and was used by no earlier run.
C26_InvocationShape ==
    built.n > 0 /\ built.err = NoErr =>
       LET cmd == built.cmd
       IN  /\ SubSeq(cmd, 1, 3) = <<Nmap, ArgOX, built.path>>
           /\ Count(cmd, ArgMaxRate) = 1
           /\ SubSeq(cmd, Len(cmd) - 2, Len(cmd))
                 = <<ArgMaxRate, Itoa(RateOf(built)), TargetOf(built)>>
           /\ Count(cmd, ConfigNet) + Count(cmd, OverrideNet) = 1
           /\ built.read \in {<<>>, cmd[3]}
           /\ cmd[3] \notin built.earlier

\* the second manual invocation, with both overrides, after its output was read
C26_Witness ==
    /\ built.n = 2 /\ built.op = "RunManualScan" /\ built.err = NoErr
    /\ built.params.RateLimit = 250 /\ built.template.RateLimit = 2000
    /\ built.params.TargetNetwork = OverrideNet /\ targetNetwork = ConfigNet
    /\ built.read = built.path /\ built.earlier # {}

\* ------------------------------------------------------------- ingestion
\* the positions of a run inside processScanResults and after it
Ingesting == {"hosts", "ports", "finalupdate", "setdone"}

\* the run of c goes on to the next record: the record before it left
\* nothing in the store, was not counted and did not end the loop
Skipped(c) ==
    /\ store' = store
    /\ loc'[c].deviceCount = loc[c].deviceCount
    /\ loc'[c].portCount = loc[c].portCount
    /\ pc'[c] = pc[c]
    /\ scanStats' = scanStats

\* a host that cannot be stored: it is not up or has no IPv4 address
BadHost(h) == h.state # "up" \/ LastAddr(h.addresses, "ipv4") = ""

\* a port that cannot be stored: it is not open or its number is no number
BadPort(p) == p.state # "open" \/ ~Atoi(p.portid).ok

\* C27: a host without an IPv4 address, a port with a non-numeric number and
\* a record whose SaveDevice or SavePort fails are skipped and not counted,
\* the loop goes on with the record after them, a record is counted only
\* with its row in the store, and a run that reached the loops leaves them
\* only by returning no error with the status completed.
C27_BadRecordSkipped ==
    [][\A c \in Callers :
          /\ pc[c] = "hosts" /\ loc'[c].hostsSeen = loc[c].hostsSeen + 1 =>
                LET h == snapshot[loc[c].hostsSeen + 1].host
                    d == DeviceOf(h, now)
                IN  /\ BadHost(h) => Skipped(c)
                    /\ \/ Skipped(c)
                       \/ /\ loc'[c].deviceCount = loc[c].deviceCount + 1
                          /\ \E row \in store'.devices : row.ip_address = d.IPAddress
                          /\ pc'[c] = "ports"
          /\ pc[c] = "ports" /\ loc'[c].portsSeen = loc[c].portsSeen + 1 =>
                LET p == snapshot[loc[c].hostsSeen].ports[loc[c].portsSeen + 1]
                IN  /\ BadPort(p) => Skipped(c)
                    /\ \/ Skipped(c)
                       \/ /\ loc'[c].portCount = loc[c].portCount + 1
                          /\ \E row \in store'.ports :
                                /\ row.device_id = loc[c].deviceID
                                /\ row.port_number = Atoi(p.portid).value
                          /\ pc'[c] = "ports"
          /\ pc[c] = "hosts" /\ pc'[c] # "hosts" /\ pc'[c] # "ports" =>
                loc[c].hostsSeen = Len(snapshot)
          /\ pc[c] \in Ingesting =>
                \/ pc'[c] \in Ingesting /\ scanStats'.Status = "running"
                \/ /\ pc'[c] = "cleanup"
                   /\ loc'[c].ret.err = NoErr
                   /\ scanStats'.Status = "completed"
                   /\ loc[c].hostsSeen = Len(snapshot)]_vars

\* a run has returned completed with one device and one port counted, after a
\* host without an IPv4 address and a port whose number is not a number
C27_Witness ==
    \E c \in Callers :
       /\ pc[c] = "cleanup" /\ loc[c].ret.err = NoErr
       /\ Len(snapshot) = 2 /\ loc[c].hostsSeen = 2
       /\ BadHost(snapshot[1].host) /\ ~BadHost(snapshot[2].host)
       /\ Len(snapshot[2].ports) = 2 /\ BadPort(snapshot[2].ports[1])
       /\ loc[c].deviceCount = 1 /\ loc[c].portCount = 1
       /\ Cardinality(store.devices) = 1 /\ Cardinality(store.ports) = 1

\* the step is an event from outside the scan in flight: the context of the
\* request is cancelled, the ticker fires, or a call to RunScan or
\* RunManualScan is made and turned away
ExternalEvent ==
    \/ trig'.cancelled /\ ~trig.cancelled
    \/ trig'.fired # trig.fired
    \/ /\ \/ trig'.requests # trig.requests
          \/ trig'.initial # trig.initial
          \/ trig.pending /\ ~trig'.pending
       /\ runs' = runs

\* the step is one of the scan of c itself
OwnStep(c) == pc[c] # "idle" /\ pc'[c] # pc[c] /\ ~ExternalEvent

\* C28: once a scan has passed the single-flight check, a cancellation of
\* the context it was given, the end of the HTTP request, another call and a
\* tick of the scheduler leave the scan, its subprocess, the flag, the
\* status and the store as they are; the status leaves "running" only in a
\* step of the scan itself, to "completed" after the subprocess has ended
\* and the results were read, or to "error" at a step of the scan that failed
C28_RunToCompletion ==
    [][/\ (isScanning /\ ExternalEvent) =>
              /\ \A c \in Callers : pc[c] # "idle" =>
                                       pc'[c] = pc[c] /\ loc'[c] = loc[c]
              /\ UNCHANGED <<isScanning, scanStats, proc, store>>
       /\ (scanStats.Status = "running" /\ scanStats'.Status # "running") =>
              \E c \in Callers :
                 /\ OwnStep(c)
                 /\ \/ /\ scanStats'.Status = "completed"
                       /\ pc[c] = "setdone" /\ c \notin proc
                    \/ /\ scanStats'.Status = "error"
                       /\ scanStats'.Error # NoErr
                       /\ pc'[c] \in {"errupdate", "cleanup"}
       /\ (isScanning /\ ~isScanning') =>
              \E c \in Callers : OwnStep(c) /\ pc[c] = "cleanup"]_vars

\* the scan of a request has completed although its context was cancelled,
\* the ticker has fired and the first call of the scheduler was turned away
C28_Witness ==
    /\ pc[Requester] = "cleanup" /\ scanStats.Status = "completed"
    /\ trig.cancelled /\ trig.fired >= 1 /\ ~trig.initial /\ runs = 1

\* the order of the positions of one run
Rank(p) ==
    CASE p = "idle" -> 0
      [] p = "entered" -> 1
      [] p = "create" -> 2
      [] p = "setid" -> 3
      [] p = "prepare" -> 4
      [] p = "pipes" -> 5
      [] p = "start" -> 6
      [] p = "wait" -> 7
      [] p = "process" -> 8
      [] p \in {"hosts", "ports"} -> 9
      [] p \in {"errupdate", "finalupdate"} -> 10
      [] p = "setdone" -> 11
      [] p = "cleanup" -> 12

\* a scan passes the single-flight check in this step
ScanStarts == runs' = runs + 1

\* C29: a run goes through its positions once, so that it launches the
\* subprocess at most once, and only from the position of cmd.Start, and
\* creates at most one Scan row, and only at the position of CreateScan; a
\* scan starts only in a step that carries a trigger (the first run of the
\* scheduler, a tick, a request); and a tick that arrived while a scan was
\* running is not kept to start a scan when that scan has ended
C29_NoAutomaticRetry ==
    [][/\ \A c \in Callers :
             /\ pc[c] \notin {"idle", "cleanup"} => Rank(pc'[c]) >= Rank(pc[c])
             /\ (c \notin proc /\ c \in proc') =>
                    pc[c] = "start" /\ pc'[c] = "wait"
             /\ pc[c] = "create" =>
                    Cardinality(store'.scans) <= Cardinality(store.scans) + 1
       /\ store'.scans # store.scans /\
          Cardinality(store'.scans) > Cardinality(store.scans) =>
             \E c \in Callers : pc[c] = "create" /\ pc'[c] # "create"
       /\ ScanStarts =>
             \/ trig.initial /\ ~trig'.initial
             \/ trig.pending /\ ~trig'.pending
             \/ trig'.requests = trig.requests + 1
       /\ (ScanStarts /\ trig.pending /\ ~trig'.pending) => ~trig.during
      ]_vars

\* C30: every change row names an existing scan row and an existing device
\* row, and every port row names an existing device row, whatever upserts,
\* scans and retention sweeps were made, upserts before any scan row included
C30_ReferentialIntegrity ==
    /\ \A ch \in store.changes :
          /\ \E r \in store.scans : r.id = ch.scan_id
          /\ \E d \in store.devices : d.id = ch.device_id
    /\ \A p \in store.ports : \E d \in store.devices : d.id = p.device_id

\* ------------------------------------------------------- ingestion counts
\* a port of the output file that SavePort is called for
GoodPort(p) == p.state = "open" /\ p.portid # <<>>
               /\ \A i \in 1..Len(p.portid) : IsDigit(p.portid[i])

\* the hosts of the output file that SaveDevice is called for
GoodHosts == {i \in 1..Len(snapshot) : ~BadHost(snapshot[i].host)}

\* 1 if the condition holds, else 0
One(cond) == IF cond THEN 1 ELSE 0

\* C31: in the loops of processScanResults, SaveDevice is called once for
\* every host that is up and has an IPv4 address and for no other host,
\* SavePort once for every open port with a numeric number of a host whose
\* SaveDevice succeeded and for no other port; deviceCount and portCount go
\* up by one exactly with a call that returned no error; a host that is not
\* up and a port that is not open leave the store alone; and DevicesFound
\* and PortsFound of the completed status are those two counts
C31_IngestionCounts ==
    /\ [][\A c \in Callers :
             LET l == loc[c]
                 m == loc'[c]
             IN  /\ pc[c] = "hosts" /\ m.hostsSeen = l.hostsSeen + 1 =>
                       LET h == snapshot[l.hostsSeen + 1].host
                           good == ~BadHost(h)
                           counted == m.deviceCount = l.deviceCount + 1
                       IN  /\ m.deviceCalls = l.deviceCalls + One(good)
                           /\ m.portCalls = l.portCalls
                           /\ m.portCount = l.portCount
                           /\ ~good => store' = store
                           /\ counted \/ m.deviceCount = l.deviceCount
                           /\ counted <=> pc'[c] = "ports"
                           /\ counted =>
                                 /\ good
                                 /\ \E fault \in StoreFaults :
                                       LET r == SaveDevice(store, DeviceOf(h, now), now,
                                                           fkEnforced, fault)
                                       IN  /\ r.err = NoErr /\ store' = r.store
                                           /\ m.deviceID = r.id
                           /\ (good /\ ~counted) =>
                                 \E fault \in StoreFaults :
                                    LET r == SaveDevice(store, DeviceOf(h, now), now,
                                                        fkEnforced, fault)
                                    IN  r.err # NoErr /\ store' = r.store
                 /\ pc[c] = "ports" /\ m.portsSeen = l.portsSeen + 1 =>
                       LET p == snapshot[l.hostsSeen].ports[l.portsSeen + 1]
                           counted == m.portCount = l.portCount + 1
                       IN  /\ m.portCalls = l.portCalls + One(GoodPort(p))
                           /\ m.deviceCalls = l.deviceCalls
                           /\ m.deviceCount = l.deviceCount
                           /\ ~GoodPort(p) => store' = store
                           /\ counted \/ m.portCount = l.portCount
                           /\ counted => GoodPort(p)
                 /\ pc[c] = "setdone" /\ pc'[c] # "setdone" =>
                       /\ scanStats'.DevicesFound = l.deviceCount
                       /\ scanStats'.PortsFound = l.portCount]_vars
    /\ [](\A c \in Callers :
             /\ loc[c].deviceCount <= loc[c].deviceCalls
             /\ loc[c].portCount <= loc[c].portCalls
             /\ pc[c] \in {"finalupdate", "setdone"} =>
                   loc[c].deviceCalls = Cardinality(GoodHosts))

\* the loops have ended on an output file of a host that is down and a host
\* that is up with a closed and an open port: one call of each kind was made
\* and both were counted
C31_Witness ==
    \E c \in Callers :
       /\ pc[c] = "setdone" /\ Len(snapshot) = 2
       /\ snapshot[1].host.state = "down" /\ Len(snapshot[1].ports) = 2
       /\ ~BadHost(snapshot[2].host) /\ Len(snapshot[2].ports) = 2
       /\ snapshot[2].ports[1].state = "closed"
       /\ loc[c].deviceCalls = 1 /\ loc[c].deviceCount = 1
       /\ loc[c].portCalls = 1 /\ loc[c].portCount = 1

\* --------------------------------------------------------- merge ordering
\* the change rows the step appends
Appended == store'.changes \ store.changes

\* the change rows the step appends are newer, by id, than every row there
\* was, and are about the device d
AppendedLastAbout(d) ==
    \A ch \in Appended :
       /\ ch.device_id = d
       /\ \A old \in store.changes : old.id < ch.id

\* C32: one merge takes the hosts of the output file one by one in their
\* order; the device of a host is saved before any of its ports, its ports
\* are taken one by one in their order, and the next host is taken only
\* after the last port of the host before it; a step on a host touches no
\* port row, a step on a port touches no device row and only rows of the
\* device saved last; and the change rows a step appends have larger ids
\* than all earlier ones and are about the device of that step
C32_MergeOrdering ==
    [][\A c \in Callers :
          LET l == loc[c]
              m == loc'[c]
          IN  pc[c] \in {"hosts", "ports"} =>
                 /\ m.hostsSeen # l.hostsSeen =>
                       /\ pc[c] = "hosts" /\ m.hostsSeen = l.hostsSeen + 1
                       /\ l.hostsSeen < Len(snapshot)
                       /\ store'.ports = store.ports
                       /\ \A row \in store'.devices \ store.devices :
                             row.ip_address =
                                DeviceOf(snapshot[m.hostsSeen].host, now).IPAddress
                       /\ pc'[c] = "ports" =>
                             m.portsSeen = 0 /\ AppendedLastAbout(m.deviceID)
                       /\ pc'[c] = "hosts" => Appended = {}
                 /\ (pc[c] = "hosts" /\ m.hostsSeen = l.hostsSeen) =>
                       /\ pc'[c] = "finalupdate" /\ l.hostsSeen = Len(snapshot)
                       /\ store' = store
                 /\ pc[c] = "ports" =>
                       /\ m.hostsSeen = l.hostsSeen /\ m.deviceID = l.deviceID
                       /\ store'.devices = store.devices
                       /\ \A row \in store'.ports \ store.ports :
                             row.device_id = l.deviceID
                       /\ AppendedLastAbout(l.deviceID)
                       /\ \/ /\ pc'[c] = "ports" /\ m.portsSeen = l.portsSeen + 1
                             /\ l.portsSeen < Len(snapshot[l.hostsSeen].ports)
                          \/ /\ pc'[c] = "hosts" /\ m.portsSeen = l.portsSeen
                             /\ l.portsSeen = Len(snapshot[l.hostsSeen].ports)
                             /\ store' = store]_vars

\* a merge of two hosts has ended: the change rows are the new device of the
\* first host, then its new port, then the new device of the second host
C32_Witness ==
    \E c \in Callers :
       /\ pc[c] = "finalupdate" /\ Len(snapshot) = 2
       /\ \E a, b \in store.devices, ca, cp, cb \in store.changes :
             /\ a.ip_address = DeviceOf(snapshot[1].host, now).IPAddress
             /\ b.ip_address = DeviceOf(snapshot[2].host, now).IPAddress
             /\ a.id # b.id
             /\ ca.change_type = "new_device" /\ ca.device_id = a.id
             /\ cp.change_type = "new_port" /\ cp.device_id = a.id
             /\ cb.change_type = "new_device" /\ cb.device_id = b.id
             /\ ca.id < cp.id /\ cp.id < cb.id

\* -------------------------------------------------------------- mock mode
\* the positions of a run that returns no error without the external tool
MockPositions == {"idle", "entered", "create", "setid", "finalupdate",
                  "setdone", "cleanup"}

\* mockDeviceCount and mockPortCount of RunScan and of RunManualScan
MockCounts(op) == IF op = "RunScan" THEN <<5, 15>> ELSE <<3, 10>>

C34_Reobservation ==
    [][(UpdatesRow("SaveDevice", DeviceRowsOf(store, call'.arg)) /\ store.scans # {}) =>
          \A row \in DeviceRowsOf(store, call'.arg) :
             /\ \E new \in store'.devices :
                   new.id = row.id /\ new.last_seen = Truncate(now)
             /\ \E ch \in store'.changes \ store.changes :
                   ch.change_type = "device_change" /\ ch.device_id = row.id]_vars

\* ---------------------------------------------------------- start requests
\* C35: a start request that finds the status running is answered 409 and
\* calls nothing, and a request that was answered 202 has its scan run: its
\* RunManualScan is never turned away, so that the requests answered 202 are
\* as many as the scans that run
C35_StartScanAnswers ==
    /\ \A r \in Callers : trig.http[r] # "lost"
    /\ \A r \in Callers : trig.http[r] = "409" => pc[r] = "idle"
    /\ runs = Cardinality({r \in Callers : trig.http[r] = "ran"})

\* ------------------------------------------------------------------- Stop
\* C36: a Stop that was called while the status was running returns only
\* when the status is no longer running and the Scan row of that scan is no
\* longer in status running
C36_StopWaitsForScan ==
    [][\A g \in Callers :
          (gor[g].pc = "stop" /\ gor'[g].pc # "stop" /\ gor[g].name = "running") =>
             /\ scanStats.Status # "running"
             /\ \A row \in store.scans : row.status # "running"]_vars

\* -------------------------------------------------------------- timestamps
\* the rows of a table that the step inserts
Inserted(old, new) == {r \in new : \A o \in old : o.id # r.id}

\* first_seen and last_seen of an inserted row are the current time
\* truncated to the hour
StampedNow(r) ==
    /\ r.first_seen = r.last_seen
    /\ r.first_seen % Hour = 0
    /\ r.first_seen <= now /\ now < r.first_seen + Hour

SavesDevice == ClientStep /\ call'.op = "SaveDevice" /\ call'.err = NoErr

\* the rows of the address of the call whose MAC is not the one of the call
OtherMac(st, device) ==
    {r \in st.devices : r.ip_address = device.IPAddress
                        /\ r.mac_address # device.MACAddress}

\* C38: a successful SaveDevice leaves every row of its address that has
\* another MAC (an empty one against a non-empty one included) exactly as it
\* was; when the address has rows but none with the MAC of the call, the call
\* inserts a row of its own with that MAC and returns its id; mac_address of
\* a row never changes; and no device_change record names the MAC address
C38_IdentityIncludesMac ==
    /\ [][/\ SavesDevice =>
                LET d == call'.arg
                IN  /\ \A r \in OtherMac(store, d) : r \in store'.devices
                    /\ (OtherMac(store, d) # {} /\ DeviceRowsOf(store, d) = {}) =>
                          \E new \in store'.devices :
                             /\ store'.devices = store.devices \cup {new}
                             /\ \A o \in store.devices : o.id # new.id
                             /\ new.ip_address = d.IPAddress
                             /\ new.mac_address = d.MACAddress
                             /\ call'.id = new.id
          /\ \A o \in store.devices, r \in store'.devices :
                o.id = r.id => r.mac_address = o.mac_address]_vars
    /\ [](\A ch \in store.changes :
             ch.change_type = "device_change" =>
                \A i \in DOMAIN ch.details : ch.details[i][1] # "MAC address")

\* the address 10.0.0.1 has a row with a MAC and a row without one
C38_Witness ==
    \E a, b \in store.devices :
       /\ a.ip_address = b.ip_address /\ a.id # b.id
       /\ a.mac_address = "aa:aa" /\ b.mac_address = ""

\* ----------------------------------------------------- status and the flag
\* C39: whenever the in-memory status is running the isScanning flag is set
C39_RunningImpliesFlag == scanStats.Status = "running" => isScanning

\* the converse does not hold: a run has set the status to completed and
\* its deferred cleanup has not cleared the flag yet
C39_Witness ==
    /\ isScanning /\ scanStats.Status = "completed"
    /\ \E c \in Callers : pc[c] = "cleanup"

\* --------------------------------------------------- retention and the scan
\* the step is a retention sweep that removed rows
Sweeps == store' # store /\ UNCHANGED <<pc, loc, scanStats, now>>

\* the run of c has its Scan row and has not returned
InProgress(c) == loc[c].dbScanID # 0 /\ pc[c] \notin {"idle", "cleanup"}

\* the sweep keeps what the scan in progress has stored: its Scan row, the
\* device and port rows it upserted and the change records it appended (a
\* change record carries the id of the latest Scan row, which is the row of
\* the scan in progress, and a port is saved under the device saved just
\* before it)
KeepsScan(c) ==
    /\ \A r \in store.scans : r.id = loc[c].dbScanID => r \in store'.scans
    /\ \A d \in store.devices :
          d.last_seen >= Truncate(scanStats.StartTime) =>
             /\ d \in store'.devices
             /\ \A r \in store.ports :
                   r.device_id = d.id /\ r.last_seen >= Truncate(scanStats.StartTime)
                      => r \in store'.ports
    /\ \A r \in store.changes :
          r.scan_id = loc[c].dbScanID /\ r.timestamp >= scanStats.StartTime =>
             r \in store'.changes

\* C40 as stated: a sweep of one day or more never removes the Scan row of
\* the scan in progress, a device or port that scan upserted or a change it
\* appended, so that the final update of the scan finds its row
C40_SweepSparesScan ==
    /\ [][\A c \in Callers : (Sweeps /\ InProgress(c)) => KeepsScan(c)]_vars
    /\ [](\A c \in Callers :
             pc[c] \in {"finalupdate", "errupdate"} /\ scanUpdates[loc[c].dbScanID] = 0
                => ScanRows(store, loc[c].dbScanID) # {})

\* C40 as the code has it: a sweep of one day or more keeps the rows of a
\* scan in progress that started, to the hour, less than a day before the
\* sweep
C40_SweepSparesRecentScan ==
    [][\A c \in Callers :
          (Sweeps /\ InProgress(c)
           /\ Truncate(scanStats.StartTime) >= now - Day) => KeepsScan(c)]_vars

\* a sweep has removed the Scan row of an earlier scan while a scan is in
\* progress, whose own row and device are still there
C40_Witness ==
    \E c \in Callers :
       /\ InProgress(c) /\ ScanRows(store, loc[c].dbScanID) # {}
       /\ loc[c].dbScanID = 2 /\ ScanRows(store, 1) = {}
       /\ \E d \in store.devices : d.last_seen >= Truncate(scanStats.StartTime)

====
